---- MODULE Spec2Model ----
(***************************************************************************)
(* The terminal investment simulation of container_system.System:          *)
(* the registry of elements, the nine investment routines that simulate()  *)
(* runs for every year, the cost, demurrage and revenue steps, the ledger  *)
(* and the NPV.                                                            *)
(*                                                                         *)
(* Units.  Years are calendar years.  Volumes and capacities are TEU.      *)
(* Quay lengths are in decimetres, so that the factor 1.1 of the quay      *)
(* formula stays exact.  Amounts of money are in tenths of a currency      *)
(* unit, so that the 60 % and 40 % capex shares stay exact.  A ratio that  *)
(* the code computes as a float is kept as a fraction [n, d]; d = 0 is     *)
(* float("inf").                                                           *)
(***************************************************************************)
EXTENDS Integers, Sequences, FiniteSets, TLC

VARIABLES
    lists,            \* the list objects: list id -> the elements it holds
    elements,         \* System.elements: the id of the list a System holds
    scenario,         \* Commodity.scenario_data of the System's commodity
    stack_equipment,  \* System.stack_equipment
    laden_stack,      \* System.laden_stack
    pc,               \* where simulate() of a System stands
    year,             \* the loop variable of the running loop of simulate()
    demurrage,        \* System.demurrage
    revenues,         \* System.revenues
    cash_flows,       \* the ledger add_cashflow_elements returned last
    npv,              \* what simulate() returned
    returned,         \* the registry as it stood when simulate() returned
    counted           \* the elements the last routine counted as online

vars == <<lists, elements, scenario, stack_equipment, laden_stack, pc, year,
          demurrage, revenues, cash_flows, npv, returned, counted>>

(***************************************************************************)
(* Bounds of the model and parameters of System.__init__                   *)
(***************************************************************************)
lifecycle == 3
startyear == 2019
operational_hours == 7500

Systems == {1, 2}
Years == startyear .. (startyear + lifecycle - 1)
Absent == -1
Variants == {"rtg", "rmg", "sc", "rs"}

\* allowable_berth_occupancy = 0.6
allowable_berth_occupancy == [n |-> 3, d |-> 5]
\* laden_perc, reefer_perc, empty_perc, oog_perc in thousandths
laden_perc == 900
reefer_perc == 50
empty_perc == 25
oog_perc == 25
\* transhipment_ratio in tenths
transhipment_ratio == 3
land_price == 0

(***************************************************************************)
(* Arithmetic                                                              *)
(***************************************************************************)
Max(a, b) == IF a >= b THEN a ELSE b
Min(a, b) == IF a <= b THEN a ELSE b
CeilDiv(a, b) == (a + b - 1) \div b

Inf == [n |-> 1, d |-> 0]
IsInf(r) == r.d = 0
\* r > s for fractions with non-negative numerators; inf > inf is false
Greater(r, s) ==
    IF IsInf(r) THEN ~IsInf(s)
    ELSE IF IsInf(s) THEN FALSE
    ELSE r.n * s.d > s.n * r.d

\* val * mult = quo * den + rem with 0 <= rem < den, for val, mult >= 0 and
\* 0 < den <= 2^30: the product is summed over the binary digits of mult, the
\* term val * 2^k kept as hi * den + lo, so that nothing but the quotient can
\* leave 32 bits.  The operands are natural numbers; the test of their signs
\* has each of them evaluated before the next digit is taken.
RECURSIVE MulDivRemLoop(_, _, _, _, _, _)
MulDivRemLoop(hi, lo, mult, den, quo, rem) ==
    IF mult = 0 \/ hi < 0 \/ lo < 0 \/ quo < 0 \/ rem < 0 THEN [q |-> quo, r |-> rem]
    ELSE LET odd == mult % 2 = 1
             rem1 == IF odd THEN rem + lo ELSE rem
             quo1 == (IF odd THEN quo + hi ELSE quo) + (IF rem1 >= den THEN 1 ELSE 0)
             rem2 == IF rem1 >= den THEN rem1 - den ELSE rem1
             last == mult \div 2 = 0
             lo2 == IF last THEN 0 ELSE 2 * lo
             hi2 == IF last THEN 0 ELSE 2 * hi + (IF lo2 >= den THEN 1 ELSE 0)
         IN  MulDivRemLoop(hi2, IF lo2 >= den THEN lo2 - den ELSE lo2, mult \div 2, den,
                           quo1, rem2)

MulDivRem(val, mult, den) == MulDivRemLoop(val \div den, val % den, mult, den, 0, 0)

\* floor(val * mult / den), exactly; val of either sign
FloorMulDiv(val, mult, den) ==
    IF val >= 0 THEN MulDivRem(val, mult, den).q
    ELSE LET m == MulDivRem(-val, mult, den) IN -(m.q + (IF m.r > 0 THEN 1 ELSE 0))

RECURSIVE SumSeq(_)
SumSeq(s) == IF s = <<>> THEN 0 ELSE Head(s) + SumSeq(Tail(s))

RECURSIVE MaxSeq(_)
MaxSeq(s) == IF Len(s) = 1 THEN s[1] ELSE Max(Head(s), MaxSeq(Tail(s)))

Map(s, Op(_)) == [i \in 1..Len(s) |-> Op(s[i])]

(***************************************************************************)
(* container_defaults: the records the routines construct elements from.   *)
(* Percentages are in hundredths, lengths in decimetres.                   *)
(***************************************************************************)
quay_wall_data ==
    [delivery_time |-> 2, mobilisation_min |-> 2500000, mobilisation_perc |-> 2,
     maintenance_perc |-> 1, insurance_perc |-> 1, apron_width |-> 655]
\* int(Gijt_constant * (depth * 2 + freeboard) ** Gijt_coefficient) for the
\* depth berth_invest passes: 757.20 * (14.5 * 2 + 4) ** 1.2878
quay_unit_rate == 68352
\* max_sinkage + wave_motion + safety_margin, in decimetres
quay_depth_allowance == 15

berth_data == [delivery_time |-> 1, max_cranes |-> 4]

sts_crane_data ==
    [delivery_time |-> 1, unit_rate |-> 10000000, mobilisation_perc |-> 15,
     maintenance_perc |-> 2, insurance_perc |-> 1, consumption |-> 400,
     crew |-> 55, lifting_capacity |-> 225, hourly_cycles |-> 28, eff_fact |-> 1]

tractor_trailer_data ==
    [delivery_time |-> 0, mobilisation |-> 1000, unit_rate |-> 85000,
     maintenance_perc |-> 10, crew |-> 1, fuel_consumption |-> 2, required |-> 5]

\* peak_factor and stack_occupancy in tenths, teu_factor in hundredths
laden_container_data ==
    [teu_factor |-> 155, dwell_time |-> 4, peak_factor |-> 12, stack_occupancy |-> 8]
reefer_container_data ==
    [teu_factor |-> 175, dwell_time |-> 4, peak_factor |-> 12, stack_occupancy |-> 8]
empty_container_data ==
    [teu_factor |-> 155, dwell_time |-> 10, peak_factor |-> 12, stack_occupancy |-> 7]
oog_container_data ==
    [teu_factor |-> 155, dwell_time |-> 5, peak_factor |-> 12, stack_occupancy |-> 9]

\* gross_tgs and area_factor in hundredths
rtg_stack_data ==
    [delivery_time |-> 1, mobilisation |-> 25000, maintenance_perc |-> 10,
     width |-> 6, height |-> 5, length |-> 30, capacity |-> 900,
     gross_tgs |-> 1800, area_factor |-> 204, pavement |-> 200, drainage |-> 50]
rmg_stack_data ==
    [delivery_time |-> 1, mobilisation |-> 50000, maintenance_perc |-> 10,
     width |-> 6, height |-> 5, length |-> 40, capacity |-> 1200,
     gross_tgs |-> 1867, area_factor |-> 279, pavement |-> 200, drainage |-> 50]
sc_stack_data ==
    [delivery_time |-> 1, mobilisation |-> 50000, maintenance_perc |-> 10,
     width |-> 48, height |-> 4, length |-> 20, capacity |-> 3840,
     gross_tgs |-> 2646, area_factor |-> 145, pavement |-> 200, drainage |-> 50]
rs_stack_data ==
    [delivery_time |-> 1, mobilisation |-> 10000, maintenance_perc |-> 10,
     width |-> 4, height |-> 4, length |-> 20, capacity |-> 320,
     gross_tgs |-> 1800, area_factor |-> 323, pavement |-> 200, drainage |-> 50]
empty_stack_data ==
    [delivery_time |-> 1, mobilisation |-> 25000, maintenance_perc |-> 10,
     width |-> 8, height |-> 6, length |-> 10, capacity |-> 480,
     gross_tgs |-> 1800, area_factor |-> 204, pavement |-> 200, drainage |-> 50]
oog_stack_data ==
    [delivery_time |-> 1, mobilisation |-> 25000, maintenance_perc |-> 10,
     width |-> 10, height |-> 1, length |-> 10, capacity |-> 100,
     gross_tgs |-> 6400, area_factor |-> 105, pavement |-> 200, drainage |-> 50]

rtg_data ==
    [delivery_time |-> 0, unit_rate |-> 1400000, mobilisation |-> 5000,
     maintenance_perc |-> 10, insurance_perc |-> 0, crew |-> 1, required |-> 3,
     fuel_consumption |-> 1, power_consumption |-> 0]
rmg_data ==
    [delivery_time |-> 0, unit_rate |-> 2500000, mobilisation |-> 5000,
     maintenance_perc |-> 10, insurance_perc |-> 0, crew |-> 0, required |-> 1,
     fuel_consumption |-> 0, power_consumption |-> 15]
sc_data ==
    [delivery_time |-> 0, unit_rate |-> 2000000, mobilisation |-> 5000,
     maintenance_perc |-> 10, insurance_perc |-> 0, crew |-> 0, required |-> 5,
     fuel_consumption |-> 15, power_consumption |-> 0]
rs_data ==
    [delivery_time |-> 0, unit_rate |-> 500000, mobilisation |-> 5000,
     maintenance_perc |-> 10, insurance_perc |-> 0, crew |-> 2, required |-> 4,
     fuel_consumption |-> 1, power_consumption |-> 0]

\* canopy is canopy_costs * area = 250 * 288.75 in tenths, area in square
\* metres; truck_moves, peak_hour and design_capacity in hundredths, peak_day
\* and peak_factor in tenths
gate_data ==
    [delivery_time |-> 1, unit_rate |-> 30000, mobilisation |-> 5000,
     maintenance_perc |-> 2, crew |-> 2, canopy |-> 721875, area |-> 288,
     design_capacity |-> 98, exit_inspection_time |-> 2, entry_inspection_time |-> 2,
     peak_hour |-> 25, peak_day |-> 1, peak_factor |-> 12, truck_moves |-> 75,
     capacity |-> 60]

container_data ==
    [handling_fee |-> 500, handysize_perc |-> 0, handymax_perc |-> 0,
     panamax_perc |-> 100]

\* mooring_time and all_turn_time in hours, LOA in metres, draft in decimetres
handysize_data ==
    [type |-> "Handysize", call_size |-> 35000, LOA |-> 130, draft |-> 100,
     all_turn_time |-> 24, mooring_time |-> 3, demurrage_rate |-> 600]
handymax_data ==
    [type |-> "Handymax", call_size |-> 55000, LOA |-> 180, draft |-> 115,
     all_turn_time |-> 24, mooring_time |-> 3, demurrage_rate |-> 750]
panamax_data ==
    [type |-> "Panamax", call_size |-> 3000, LOA |-> 290, draft |-> 130,
     all_turn_time |-> 31, mooring_time |-> 6, demurrage_rate |-> 730]

labour_data == [daily_shifts |-> 5]

StackData(variant) ==
    CASE variant = "rtg" -> rtg_stack_data
      [] variant = "rmg" -> rmg_stack_data
      [] variant = "sc" -> sc_stack_data
      [] variant = "rs" -> rs_stack_data

EquipmentData(variant) ==
    CASE variant = "rtg" -> rtg_data
      [] variant = "rmg" -> rmg_data
      [] variant = "sc" -> sc_data
      [] variant = "rs" -> rs_data

(***************************************************************************)
(* Configuration this snapshot of the repository reads and does not hold:  *)
(* the element classes of container_objects and the records                *)
(* empty_handler_data and general_services_data.                           *)
(***************************************************************************)
\* Cyclic_Unloader.effective_capacity: lifting_capacity * hourly_cycles * eff_fact
effective_capacity == 63
\* Labour.blue_collar_salary and Labour.white_collar_salary
blue_collar_salary == 25000
white_collar_salary == 35000
\* Quay_wall.apron_pavement, per square metre
apron_pavement == 125
\* Laden_Stack.reefer_factor in hundredths, reefer_rack, reefers_present in hundredths
reefer_factor == 233
reefer_rack == 3500
reefers_present == 50
\* household and digout of the empty stack; household and digout_margin of the
\* laden stack; non_essential_moves of the tractor: hundredths
empty_household == 105
empty_digout == 150
stack_household == 10
stack_digout_margin == 120
non_essential_moves == 120

empty_handler_data ==
    [delivery_time |-> 1, unit_rate |-> 500000, mobilisation |-> 5000,
     maintenance_perc |-> 2, crew |-> 1, fuel_consumption |-> 15, required |-> 5]

general_services_data ==
    [delivery_time |-> 1, capex |-> 50000000, general_maintenance |-> 2, land_use |-> 5000,
     crew_required |-> 500000, fixed_staff |-> 8, operations |-> 4,
     engineering_security |-> 4, lighting_consumption |-> 1,
     general_consumption |-> 1000]

(***************************************************************************)
(* Elements.  An element object is a record; oid is the identity of the    *)
(* Python object (two positions of a list hold the same object exactly     *)
(* when their oid is equal) and year is the year the routine that made it  *)
(* was called for.  df is the cash-flow DataFrame of the element: the      *)
(* columns it has, the cells that are NaN, and the values of the others.   *)
(***************************************************************************)
Columns == {"capex", "maintenance", "insurance", "energy", "labour", "fuel"}

NoDf == [cols |-> {}, nan |-> {}, val |-> [c \in Columns |-> [y \in Years |-> 0]]]

Element(kind, oid, y) ==
    [kind |-> kind, type |-> "", oid |-> oid, year |-> y, year_online |-> 0,
     delivery_time |-> 0, capacity |-> 0, length |-> 0, depth |-> 0,
     land_use |-> 0, capex |-> 0, maintenance |-> 0, insurance |-> 0, labour |-> 0,
     hasdf |-> FALSE, df |-> NoDf]

Commodity == Element("Commodity", 1, 0)
Vessel(data, oid) == [Element("Vessel", oid, 0) EXCEPT !.type = data.type]

\* the elements System.__init__ is given: one Commodity of container_data and
\* one Vessel of each of handysize_data, handymax_data and panamax_data, the
\* three vessel types calculate_vessel_calls and calculate_berth_occupancy
\* read.  (The front end builds its vessels from the defaults of another
\* package, which this container_defaults does not hold.)
InitialElements ==
    <<Commodity, Vessel(handysize_data, 2), Vessel(handymax_data, 3),
      Vessel(panamax_data, 4)>>

find_elements(els, kind) == SelectSeq(els, LAMBDA e : e.kind = kind)

\* the elements of a kind with year >= element.year_online
OnlineElements(els, kind, y) ==
    SelectSeq(els, LAMBDA e : e.kind = kind /\ y >= e.year_online)

(***************************************************************************)
(* add_cashflow_data_to_element                                            *)
(***************************************************************************)
\* df.loc[df["year"] == y, col] = amount: the column comes to exist; a cell
\* of a new column that is not written is NaN
SetCell(df, col, y, amount) ==
    LET fresh == col \notin df.cols
        others == IF fresh THEN {<<col, z>> : z \in Years \ {y}} ELSE {}
    IN  [cols |-> df.cols \cup {col},
         nan |-> (df.nan \cup others) \ {<<col, y>>},
         val |-> IF y \in Years
                 THEN [df.val EXCEPT ![col][y] = amount]
                 ELSE df.val]

\* df.loc[df["year"] >= y0, col] = amount
SetFrom(df, col, y0, amount) ==
    LET fresh == col \notin df.cols
        others == IF fresh THEN {<<col, z>> : z \in {w \in Years : w < y0}} ELSE {}
    IN  [cols |-> df.cols \cup {col},
         nan |-> (df.nan \cup others) \ {<<col, z>> : z \in {w \in Years : w >= y0}},
         val |-> [df.val EXCEPT ![col] =
                     [z \in Years |-> IF z >= y0 THEN amount ELSE @[z]]]]

\* df.fillna(0, inplace=True)
FillNa(df) ==
    [cols |-> df.cols, nan |-> {},
     val |-> [c \in Columns |->
                 [y \in Years |-> IF <<c, y>> \in df.nan THEN 0 ELSE df.val[c][y]]]]

CapexShare60(capex) == (6 * capex) \div 10
CapexShare40(capex) == (4 * capex) \div 10

\* the whole capex booked in the year before year_online, whatever the
\* delivery time
CapexBookedAtOnce(df, e) == SetCell(df, "capex", e.year_online - 1, e.capex)

CapexBooked(df, e) ==
    IF e.delivery_time > 1
    THEN SetCell(SetCell(df, "capex", e.year_online - 2, CapexShare60(e.capex)),
                 "capex", e.year_online - 1, CapexShare40(e.capex))
    ELSE SetCell(df, "capex", e.year_online - 1, e.capex)

OpexBooked(df, col, amount, year_online) ==
    IF amount # 0 THEN SetFrom(df, col, year_online, amount) ELSE df

add_cashflow_data_to_element(e) ==
    LET d0 == [NoDf EXCEPT !.nan = {}]
        d1 == CapexBooked(d0, e)
        d2 == OpexBooked(d1, "maintenance", e.maintenance, e.year_online)
        d3 == OpexBooked(d2, "insurance", e.insurance, e.year_online)
        d4 == OpexBooked(d3, "labour", e.labour, e.year_online)
    IN  [e EXCEPT !.hasdf = TRUE, !.df = FillNa(d4)]

(***************************************************************************)
(* Demand: calculate_vessel_calls and throughput_characteristics           *)
(***************************************************************************)
\* commodity.scenario_data.loc[scenario_data['year'] == year]['volume'].item()
\* raises when the scenario has no row for the year
HasVolume(scen, y) == y \in DOMAIN scen /\ scen[y] # Absent

\* the volume the try/except of calculate_vessel_calls adds: none when the
\* lookup raised
CallVolume(scen, y) == IF HasVolume(scen, y) THEN scen[y] ELSE 0

VesselData(type) ==
    CASE type = "Handysize" -> handysize_data
      [] type = "Handymax" -> handymax_data
      [] type = "Panamax" -> panamax_data

CommodityPerc(type) ==
    CASE type = "Handysize" -> container_data.handysize_perc
      [] type = "Handymax" -> container_data.handymax_perc
      [] type = "Panamax" -> container_data.panamax_perc

\* int(np.ceil(vol / vessel.call_size)) with vol = volume * perc / 100
Calls(scen, y, type) ==
    CeilDiv(CallVolume(scen, y) * CommodityPerc(type), 100 * VesselData(type).call_size)

VesselTypes == {"Handysize", "Handymax", "Panamax"}

calculate_vessel_calls(scen, y) ==
    [handysize |-> Calls(scen, y, "Handysize"),
     handymax |-> Calls(scen, y, "Handymax"),
     panamax |-> Calls(scen, y, "Panamax"),
     total_calls |-> Calls(scen, y, "Handysize") + Calls(scen, y, "Handymax")
                     + Calls(scen, y, "Panamax"),
     total_vol |-> CallVolume(scen, y)]

CallsOf(calls, type) ==
    CASE type = "Handysize" -> calls.handysize
      [] type = "Handymax" -> calls.handymax
      [] type = "Panamax" -> calls.panamax

(***************************************************************************)
(* calculate_berth_occupancy: the planned berth occupancy                  *)
(***************************************************************************)
\* sum over the vessel classes of calls * (call_size * b + mooring_time * rate):
\* the planned time at berth times rate * b
TimeAtBerthTimes(calls, rate, b) ==
    LET t(type) == CallsOf(calls, type)
                   * (VesselData(type).call_size * b + VesselData(type).mooring_time * rate)
    IN  t("Handysize") + t("Handymax") + t("Panamax")

\* the occupancy without the guard of the missing cranes: nothing to serve
\* the calls, read as nothing to wait for
berth_occupancy_unguarded(els, calls) ==
    LET cranes == Len(find_elements(els, "Cyclic_Unloader"))
        nr_berths == Len(find_elements(els, "Berth"))
        service_rate_planned == cranes * effective_capacity
    IN  IF cranes = 0
        THEN [n |-> 0, d |-> 1]
        ELSE [n |-> TimeAtBerthTimes(calls, service_rate_planned, nr_berths),
              d |-> service_rate_planned * nr_berths * operational_hours]

berth_occupancy_planned(els, calls) ==
    LET cranes == Len(find_elements(els, "Cyclic_Unloader"))
        nr_berths == Len(find_elements(els, "Berth"))
        service_rate_planned == cranes * effective_capacity
    IN  IF cranes = 0
        THEN Inf
        ELSE [n |-> TimeAtBerthTimes(calls, service_rate_planned, nr_berths),
              d |-> service_rate_planned * nr_berths * operational_hours]

(***************************************************************************)
(* waiting_time: the factor                                                *)
(***************************************************************************)
\* TRUE when waiting_time returns float("inf") as the factor: the berth count
\* has no polynomial
WaitingFactorIsInf(els) ==
    Len(find_elements(els, "Berth")) \notin 1..7

\* a slot counted free while the cranes do not exceed the berths' maximum
crane_slot_up_to_maximum(els) ==
    /\ Len(find_elements(els, "Berth")) >= 1
    /\ Len(find_elements(els, "Berth")) * berth_data.max_cranes
           >= Len(find_elements(els, "Cyclic_Unloader"))

check_crane_slot_available(els) ==
    Len(find_elements(els, "Berth")) * berth_data.max_cranes
        > Len(find_elements(els, "Cyclic_Unloader"))

(***************************************************************************)
(* berth_invest, quay_invest, crane_invest                                 *)
(***************************************************************************)
NewBerth(els, y) ==
    [Element("Berth", Len(els) + 1, y) EXCEPT
        !.delivery_time = berth_data.delivery_time,
        !.year_online = y + berth_data.delivery_time]

\* max of the three LOA, in metres, and of the three drafts, in decimetres
length_v == Max(handysize_data.LOA, Max(handymax_data.LOA, panamax_data.LOA))
draft == Max(handysize_data.draft, Max(handymax_data.draft, panamax_data.draft))

\* the incremental formula taken for the second quay wall as well
QuayLengthEarlySwitch(quay_walls, berths) ==
    IF quay_walls = 0
    THEN 10 * (length_v + 2 * 15)
    ELSE 11 * berths * (length_v + 15) - 11 * (berths - 1) * (length_v + 15)

\* the length berth_invest passes to quay_invest, in decimetres
QuayLength(quay_walls, berths) ==
    IF quay_walls = 0
    THEN 10 * (length_v + 2 * 15)
    ELSE IF quay_walls = 1
    THEN 11 * berths * (length_v + 15) - 10 * (length_v + 2 * 15)
    ELSE 11 * berths * (length_v + 15) - 11 * (berths - 1) * (length_v + 15)

\* the largest draft alone, without the allowances
QuayDepthOfDraft == draft

QuayDepth == draft + quay_depth_allowance

\* quay_wall.capex, insurance and maintenance for a length in decimetres
QuayMobilisation(length) ==
    Max((length * quay_unit_rate * quay_wall_data.mobilisation_perc) \div 1000,
        quay_wall_data.mobilisation_min)
QuayCapex(length) ==
    10 * ((length * quay_unit_rate + 10 * QuayMobilisation(length)
           + (length * quay_wall_data.apron_width * (apron_pavement + land_price)) \div 10)
          \div 10)

quay_invest(els, y, length, depth) ==
    LET q == [Element("Quay_wall", Len(els) + 1, y) EXCEPT
                 !.delivery_time = quay_wall_data.delivery_time,
                 !.length = length,
                 !.depth = depth,
                 !.land_use = (length * quay_wall_data.apron_width) \div 100,
                 !.capex = QuayCapex(length),
                 !.insurance = (quay_unit_rate * length * quay_wall_data.insurance_perc) \div 100,
                 !.maintenance = (quay_unit_rate * length * quay_wall_data.maintenance_perc) \div 100,
                 !.year_online = y + quay_wall_data.delivery_time]
    IN  Append(els, add_cashflow_data_to_element(q))

\* crew * daily_shifts * blue_collar_salary, for a crew in tenths
CraneLabour == sts_crane_data.crew * labour_data.daily_shifts * blue_collar_salary

QuayYearsOnline(els) == Map(find_elements(els, "Quay_wall"), LAMBDA e : e.year_online)

\* a crane online at its own delivery, whatever the quays
crane_invest_on_delivery(els, y) ==
    LET c == [Element("Cyclic_Unloader", Len(els) + 1, y) EXCEPT
                 !.delivery_time = sts_crane_data.delivery_time,
                 !.capex = 10 * (sts_crane_data.unit_rate
                                 + (sts_crane_data.unit_rate * sts_crane_data.mobilisation_perc) \div 100),
                 !.insurance = (10 * sts_crane_data.unit_rate * sts_crane_data.insurance_perc) \div 100,
                 !.maintenance = (10 * sts_crane_data.unit_rate * sts_crane_data.maintenance_perc) \div 100,
                 !.labour = CraneLabour,
                 !.year_online = y + sts_crane_data.delivery_time]
    IN  Append(els, add_cashflow_data_to_element(c))

crane_invest(els, y) ==
    LET c == [Element("Cyclic_Unloader", Len(els) + 1, y) EXCEPT
                 !.delivery_time = sts_crane_data.delivery_time,
                 !.capex = 10 * (sts_crane_data.unit_rate
                                 + (sts_crane_data.unit_rate * sts_crane_data.mobilisation_perc) \div 100),
                 !.insurance = (10 * sts_crane_data.unit_rate * sts_crane_data.insurance_perc) \div 100,
                 !.maintenance = (10 * sts_crane_data.unit_rate * sts_crane_data.maintenance_perc) \div 100,
                 !.labour = CraneLabour,
                 !.year_online = Max(y + sts_crane_data.delivery_time,
                                     MaxSeq(QuayYearsOnline(els)))]
    IN  Append(els, add_cashflow_data_to_element(c))

\* a pass that adds a berth whether or not a crane slot is free
BerthStepBerthAlways(els, y) ==
    LET e1 == Append(els, NewBerth(els, y))
        berths == Len(find_elements(e1, "Berth"))
        quay_walls == Len(find_elements(e1, "Quay_wall"))
        e2 == IF berths > quay_walls
              THEN quay_invest(e1, y, QuayLength(quay_walls, berths), QuayDepth)
              ELSE e1
    IN  IF check_crane_slot_available(e2) THEN crane_invest(e2, y) ELSE e2

\* one pass of the body of the while loop of berth_invest
BerthStep(els, y) ==
    LET e1 == IF ~check_crane_slot_available(els)
              THEN Append(els, NewBerth(els, y))
              ELSE els
        berths == Len(find_elements(e1, "Berth"))
        quay_walls == Len(find_elements(e1, "Quay_wall"))
        e2 == IF berths > quay_walls
              THEN quay_invest(e1, y, QuayLength(quay_walls, berths), QuayDepth)
              ELSE e1
    IN  IF check_crane_slot_available(e2) THEN crane_invest(e2, y) ELSE e2

BerthTrigger(els, calls) ==
    Greater(berth_occupancy_planned(els, calls), allowable_berth_occupancy)

RECURSIVE berth_invest(_, _, _)
berth_invest(els, y, calls) ==
    IF BerthTrigger(els, calls)
    THEN berth_invest(BerthStep(els, y), y, calls)
    ELSE els

(***************************************************************************)
(* horizontal_transport_invest                                             *)
(***************************************************************************)
\* year + delivery_time, and one year more in the first year
YearOnline(y, delivery_time) ==
    IF y = startyear THEN y + delivery_time + 1 ELSE y + delivery_time

\* crew * daily_shifts * blue_collar_salary, in tenths
ShiftLabour(crew) == 10 * crew * labour_data.daily_shifts * blue_collar_salary

NewTractor(els, y) ==
    LET t == [Element("Horizontal_Transport", Len(els) + 1, y) EXCEPT
                 !.delivery_time = tractor_trailer_data.delivery_time,
                 !.capex = 10 * (tractor_trailer_data.unit_rate + tractor_trailer_data.mobilisation),
                 !.maintenance = (10 * tractor_trailer_data.unit_rate
                                  * tractor_trailer_data.maintenance_perc) \div 100,
                 !.labour = ShiftLabour(tractor_trailer_data.crew),
                 !.year_online = YearOnline(y, tractor_trailer_data.delivery_time)]
    IN  add_cashflow_data_to_element(t)

\* the loop taken once more when the tractors just suffice
RECURSIVE TractorLoopOnceMore(_, _, _, _)
TractorLoopOnceMore(els, y, sts_cranes, tractor_online) ==
    IF sts_cranes >= tractor_online \div tractor_trailer_data.required
    THEN LET next == Append(els, NewTractor(els, y))
         IN  TractorLoopOnceMore(next, y, sts_cranes,
                                 Len(find_elements(next, "Horizontal_Transport")))
    ELSE els

RECURSIVE TractorLoop(_, _, _, _)
TractorLoop(els, y, sts_cranes, tractor_online) ==
    IF sts_cranes > tractor_online \div tractor_trailer_data.required
    THEN LET next == Append(els, NewTractor(els, y))
         IN  TractorLoop(next, y, sts_cranes, Len(find_elements(next, "Horizontal_Transport")))
    ELSE els

horizontal_transport_invest(els, y, equipment) ==
    IF equipment # "sc"
    THEN TractorLoop(els, y, Len(OnlineElements(els, "Cyclic_Unloader", y)),
                     Len(OnlineElements(els, "Horizontal_Transport", y)))
    ELSE els

(***************************************************************************)
(* Stack capacities: laden_reefer_stack_capacity, empty_stack_capacity,    *)
(* oog_stack_capacity.  The required capacity is a fraction of the volume. *)
(***************************************************************************)
RECURSIVE Gcd(_, _)
Gcd(a, b) == IF b = 0 THEN a ELSE Gcd(b, a % b)
Reduced(r) == LET g == Gcd(r.n, r.d) IN [n |-> r.n \div g, d |-> r.d \div g]
\* the product of two fractions, cancelled before it is multiplied out
Times(r, s) ==
    LET g == Gcd(r.n, s.d)
        h == Gcd(s.n, r.d)
    IN  Reduced([n |-> (r.n \div g) * (s.n \div h), d |-> (r.d \div h) * (s.d \div g)])
Frac(n, d) == [n |-> n, d |-> d]

operational_days == operational_hours \div 24

\* teu * peak_factor * dwell_time / stack_occupancy / operational_days per TEU of
\* total volume, for a category with a share in thousandths
SlotsPerTeu(perc, c) ==
    [n |-> perc * c.peak_factor * c.dwell_time,
     d |-> 1000 * c.stack_occupancy * operational_days]

\* required_capacity of the laden and reefer stack per TEU of total volume
LadenRequiredPerTeu ==
    LET l == SlotsPerTeu(laden_perc, laden_container_data)
        r == SlotsPerTeu(reefer_perc, reefer_container_data)
    IN  Reduced([n |-> l.n * 100 + r.n * reefer_factor, d |-> l.d * 100])

EmptyRequiredPerTeu == Reduced(SlotsPerTeu(empty_perc, empty_container_data))

\* oog_spots: also divided by the stack height and the TEU factor
OogRequiredPerTeu ==
    LET o == SlotsPerTeu(oog_perc, oog_container_data)
    IN  Reduced([n |-> o.n * 100,
                 d |-> o.d * oog_stack_data.height * oog_container_data.teu_factor])

\* required > capacity for the volume of a year
RequiredExceeds(perTeu, volume, capacity) ==
    volume * perTeu.n > capacity * perTeu.d

CapacityPlanned(els, kind) == SumSeq(Map(find_elements(els, kind), LAMBDA e : e.capacity))
CapacityOnline(els, kind, y) == SumSeq(Map(OnlineElements(els, kind, y), LAMBDA e : e.capacity))

\* the capacity the while loops of the stack routines compare the required
\* capacity with: planned + online
StackCapacityCompared(els, kind, y) ==
    CapacityPlanned(els, kind) + CapacityOnline(els, kind, y)

(***************************************************************************)
(* laden_stack_invest, empty_stack_invest, oog_stack_invest                *)
(***************************************************************************)
\* (pavement + drainage + cost_of_land) * gross_tgs * area * area_factor
StackPavement(data) ==
    ((((data.pavement + data.drainage + land_price) * data.gross_tgs
       * data.length * data.width) \div 100) * data.area_factor) \div 100

\* (pavement + drainage) * gross_tgs * area * area_factor
StackPavementMaintained(data) ==
    ((((data.pavement + data.drainage) * data.gross_tgs
       * data.length * data.width) \div 100) * data.area_factor) \div 100

\* capacity / height * gross_tgs * area_factor, in square metres
StackLandUse(data) ==
    ((((data.capacity \div data.height) * data.gross_tgs) \div 100) * data.area_factor) \div 100

\* reefer_slots * stack.reefer_rack, with reefer_slots the reefer ground slots
\* times the stack height: in hundredths of a currency unit
ReeferRack(volume) ==
    LET r == SlotsPerTeu(reefer_perc, reefer_container_data)
        perTeu == Reduced([n |-> r.n * reefer_factor, d |-> r.d * 100])
        cost == Times(perTeu, Frac(100 * reefer_rack, 1))
    IN  FloorMulDiv(volume, cost.n, cost.d)

NewStack(els, y, kind, data, rack, landUse) ==
    LET s == [Element(kind, Len(els) + 1, y) EXCEPT
                 !.delivery_time = data.delivery_time,
                 !.capacity = data.capacity,
                 !.land_use = landUse,
                 !.capex = 10 * (StackPavement(data) + data.mobilisation + rack \div 100),
                 !.maintenance = 10 * ((StackPavementMaintained(data) * data.maintenance_perc)
                                       \div 100),
                 !.year_online = YearOnline(y, data.delivery_time)]
    IN  s

\* the loop comparing the required capacity with the planned capacity alone
RECURSIVE laden_stack_invest_planned(_, _, _, _)
laden_stack_invest_planned(els, y, volume, variant) ==
    IF RequiredExceeds(LadenRequiredPerTeu, volume, CapacityPlanned(els, "Laden_Stack"))
    THEN LET data == StackData(variant)
             stack == NewStack(els, y, "Laden_Stack", data, ReeferRack(volume),
                               StackLandUse(data))
         IN  laden_stack_invest_planned(Append(els, add_cashflow_data_to_element(stack)),
                                        y, volume, variant)
    ELSE els

RECURSIVE laden_stack_invest(_, _, _, _)
laden_stack_invest(els, y, volume, variant) ==
    IF RequiredExceeds(LadenRequiredPerTeu, volume, StackCapacityCompared(els, "Laden_Stack", y))
    THEN LET data == StackData(variant)
             stack == NewStack(els, y, "Laden_Stack", data, ReeferRack(volume),
                               StackLandUse(data))
         IN  laden_stack_invest(Append(els, add_cashflow_data_to_element(stack)),
                                y, volume, variant)
    ELSE els

RECURSIVE empty_stack_invest(_, _, _)
empty_stack_invest(els, y, volume) ==
    IF RequiredExceeds(EmptyRequiredPerTeu, volume, StackCapacityCompared(els, "Empty_Stack", y))
    THEN LET stack == NewStack(els, y, "Empty_Stack", empty_stack_data, 0,
                               StackLandUse(empty_stack_data))
         IN  empty_stack_invest(Append(els, add_cashflow_data_to_element(stack)), y, volume)
    ELSE els

\* the out-of-gauge stack gets its cash-flow data in the else branch of the
\* year test only: not in the first year
OogWithCashflow(stack, y) ==
    IF y = startyear THEN stack ELSE add_cashflow_data_to_element(stack)

\* stack_ground_slots * gross_tgs, in square metres
OogLandUse ==
    ((oog_stack_data.capacity \div oog_stack_data.height) * oog_stack_data.gross_tgs) \div 100

RECURSIVE oog_stack_invest(_, _, _)
oog_stack_invest(els, y, volume) ==
    IF RequiredExceeds(OogRequiredPerTeu, volume, StackCapacityCompared(els, "OOG_Stack", y))
    THEN LET stack == NewStack(els, y, "OOG_Stack", oog_stack_data, 0, OogLandUse)
         IN  oog_stack_invest(Append(els, OogWithCashflow(stack, y)), y, volume)
    ELSE els

(***************************************************************************)
(* stack_equipment_invest                                                  *)
(***************************************************************************)
\* the one Stack_Equipment object a call constructs, as the loop body leaves it
EquipmentObject(oid, y, variant) ==
    LET data == EquipmentData(variant)
        q == [Element("Stack_Equipment", oid, y) EXCEPT
                 !.delivery_time = data.delivery_time,
                 !.capex = 10 * (data.unit_rate + data.mobilisation),
                 !.insurance = (10 * data.unit_rate * data.insurance_perc) \div 100,
                 !.maintenance = (10 * data.unit_rate * data.maintenance_perc) \div 100,
                 !.labour = ShiftLabour(data.crew),
                 !.year_online = YearOnline(y, data.delivery_time)]
    IN  add_cashflow_data_to_element(q)

\* the while condition: against the cranes for rtg, sc and rs, against the
\* laden stacks for rmg
EquipmentTrigger(variant, sts_cranes, stack, stack_equipment_online) ==
    IF variant = "rmg"
    THEN 2 * stack > stack_equipment_online
    ELSE sts_cranes > stack_equipment_online \div EquipmentData(variant).required

RECURSIVE EquipmentLoop(_, _, _, _, _, _, _)
EquipmentLoop(els, oid, y, variant, sts_cranes, stack, stack_equipment_online) ==
    IF EquipmentTrigger(variant, sts_cranes, stack, stack_equipment_online)
    THEN LET next == Append(els, EquipmentObject(oid, y, variant))
         IN  EquipmentLoop(next, oid, y, variant, sts_cranes, stack,
                           Len(find_elements(next, "Stack_Equipment")))
    ELSE els

stack_equipment_invest(els, y, variant) ==
    EquipmentLoop(els, Len(els) + 1, y, variant,
                  Len(OnlineElements(els, "Cyclic_Unloader", y)),
                  Len(OnlineElements(els, "Laden_Stack", y)),
                  Len(OnlineElements(els, "Stack_Equipment", y)))

(***************************************************************************)
(* calculate_throughput, throughput_box, calculate_gate_minutes            *)
(***************************************************************************)
\* demand: the four shares of the volume of the year
Demand(volume) ==
    (volume * (laden_perc + reefer_perc + oog_perc + empty_perc)) \div 1000

\* throughput_online = min(quay_capacity_online, demand)
throughput_online(els, y, volume) ==
    Min(Len(OnlineElements(els, "Cyclic_Unloader", y)) * effective_capacity * operational_hours,
        Demand(volume))

\* boxes per TEU of throughput: sum of share / teu_factor
BoxesPerTeu ==
    LET a == laden_container_data.teu_factor
        b == reefer_container_data.teu_factor
    IN  Reduced([n |-> (laden_perc + empty_perc + oog_perc) * b + reefer_perc * a,
                 d |-> 10 * a * b])

\* design gate minutes per box: entry and exit each for half of the boxes that
\* are not transhipped, times truck_moves / weeks_year * peak_factor * peak_day *
\* peak_hour * inspection_time * design_capacity
weeks_year == 52
GateMinutesPerBox ==
    LET g == gate_data
        moves == Times(Frac(10 - transhipment_ratio, 10), Frac(g.truck_moves, 100 * weeks_year))
        peak == Times(Times(Frac(g.peak_factor, 10), Frac(g.peak_day, 10)), Frac(g.peak_hour, 100))
        inspection == Times(Frac(g.exit_inspection_time + g.entry_inspection_time, 2),
                            Frac(g.design_capacity, 100))
    IN  Times(Times(moves, peak), inspection)

GateMinutesPerTeu == Times(BoxesPerTeu, GateMinutesPerBox)

\* a trigger that holds until the registry has two gates
GateTriggerTwoGates(els, y, volume) ==
    LET gates == find_elements(els, "Gate")
        capacity_planned == SumSeq(Map(gates, LAMBDA e : e.capacity))
    IN  IF Len(gates) < 2
        THEN TRUE
        ELSE throughput_online(els, y, volume)
                 > FloorMulDiv(capacity_planned, GateMinutesPerTeu.d, GateMinutesPerTeu.n)

\* service_rate_planned > 1: the design gate minutes, the throughput times
\* GateMinutesPerTeu, exceed the capacity planned, which is to say the
\* throughput exceeds floor(capacity_planned / GateMinutesPerTeu)
GateTrigger(els, y, volume) ==
    LET gates == find_elements(els, "Gate")
        capacity_planned == SumSeq(Map(gates, LAMBDA e : e.capacity))
    IN  IF gates = <<>>
        THEN TRUE
        ELSE throughput_online(els, y, volume)
                 > FloorMulDiv(capacity_planned, GateMinutesPerTeu.d, GateMinutesPerTeu.n)

(***************************************************************************)
(* gate_invest, empty_handler_invest, general_services_invest              *)
(***************************************************************************)
NewGate(els, y) ==
    LET g == [Element("Gate", Len(els) + 1, y) EXCEPT
                 !.delivery_time = gate_data.delivery_time,
                 !.capacity = gate_data.capacity,
                 !.land_use = gate_data.area,
                 !.capex = 10 * ((10 * (gate_data.unit_rate + gate_data.mobilisation)
                                  + gate_data.canopy + 10 * land_price * gate_data.area) \div 10),
                 !.maintenance = (10 * gate_data.unit_rate * gate_data.maintenance_perc) \div 100,
                 !.labour = ShiftLabour(gate_data.crew),
                 !.year_online = YearOnline(y, gate_data.delivery_time)]
    IN  add_cashflow_data_to_element(g)

RECURSIVE gate_invest(_, _, _)
gate_invest(els, y, volume) ==
    IF GateTrigger(els, y, volume)
    THEN gate_invest(Append(els, NewGate(els, y)), y, volume)
    ELSE els

\* the one Empty_Handler object a call constructs, as the loop body leaves it
HandlerObject(oid, y) ==
    LET data == empty_handler_data
        h == [Element("Empty_Handler", oid, y) EXCEPT
                 !.delivery_time = data.delivery_time,
                 !.capex = 10 * (data.unit_rate + data.mobilisation),
                 !.maintenance = (10 * data.unit_rate * data.maintenance_perc) \div 100,
                 !.labour = ShiftLabour(data.crew),
                 !.year_online = YearOnline(y, data.delivery_time)]
    IN  add_cashflow_data_to_element(h)

RECURSIVE HandlerLoop(_, _, _, _, _)
HandlerLoop(els, oid, y, sts_cranes, empty_handler_online) ==
    IF sts_cranes > empty_handler_online \div empty_handler_data.required
    THEN LET next == Append(els, HandlerObject(oid, y))
         IN  HandlerLoop(next, oid, y, sts_cranes, Len(find_elements(next, "Empty_Handler")))
    ELSE els

empty_handler_invest(els, y) ==
    HandlerLoop(els, Len(els) + 1, y, Len(find_elements(els, "Cyclic_Unloader")),
                Len(find_elements(els, "Empty_Handler")))

\* both branches of the year test set year + delivery_time
NewGeneralServices(els, y) ==
    LET data == general_services_data
        g == [Element("General_Services", Len(els) + 1, y) EXCEPT
                 !.delivery_time = data.delivery_time,
                 !.land_use = data.land_use,
                 !.capex = data.capex,
                 !.maintenance = (data.capex * data.general_maintenance) \div 100,
                 !.year_online = y + data.delivery_time]
    IN  add_cashflow_data_to_element(g)

\* elements.insert(0, general) in place of elements.append(general)
general_services_insert(els, y) ==
    IF y = startyear + 1 THEN <<NewGeneralServices(els, y)>> \o els ELSE els

general_services_invest(els, y) ==
    IF y = startyear + 1 THEN Append(els, NewGeneralServices(els, y)) ELSE els

\* throughput_characteristics reads the volume of the year after a lookup that
\* may have raised: with no row for the year the name is unbound and the
\* routines that call it raise
ThroughputRaises(scen, y) == ~HasVolume(scen, y)

(***************************************************************************)
(* box_moves: the moves per TEU of the throughput online.  A cost that the *)
(* code computes as a float is kept in tenths of a currency unit, rounded  *)
(* down.                                                                   *)
(***************************************************************************)
\* energy_price = 0.15 as a fraction, fuel_price = 1
energy_price == [n |-> 3, d |-> 20]
fuel_price == 1

\* floor(t * r) for a fraction r, staged so that no product leaves 32 bits
MulDiv(t, r) ==
    LET n == Reduced(r).n
        d == Reduced(r).d
    IN  t * (n \div d) + (t \div d) * (n % d) + ((t % d) * (n % d)) \div d

TractorMovesPerTeu == Times(BoxesPerTeu, Frac(non_essential_moves, 100))

\* empty_box * household * digout
EmptyMovesPerTeu ==
    Times(Times(Frac(empty_perc, 10 * empty_container_data.teu_factor),
                Frac(empty_household, 100)),
          Frac(empty_digout, 100))

\* laden_box + reefer_box per TEU
LadenReeferBoxPerTeu ==
    LET a == laden_container_data.teu_factor
        b == reefer_container_data.teu_factor
    IN  Reduced([n |-> laden_perc * b + reefer_perc * a, d |-> 10 * a * b])

\* moves_i_e and moves_t_s weighted with the transhipment ratio, for the
\* height of the laden stack of a variant
StackMovesPerBox(variant) ==
    LET h == StackData(variant).height
        base == 200 + stack_household
        moves_i_e == 100 * base + 5000 * (h - 1) + base * stack_digout_margin
        moves_t_s == base * stack_digout_margin
    IN  Reduced([n |-> (10 - transhipment_ratio) * moves_i_e + transhipment_ratio * moves_t_s,
                 d |-> 10 * 20000])

StackMovesPerTeu(variant) == Times(LadenReeferBoxPerTeu, StackMovesPerBox(variant))

\* reefer_slots per TEU of the volume of the year
ReeferSlotsPerTeu ==
    Times(Reduced(SlotsPerTeu(reefer_perc, reefer_container_data)), Frac(reefer_factor, 100))

(***************************************************************************)
(* Writes into the cash-flow data of the elements of a kind:               *)
(* element.df.loc[element.df['year'] == year, col] = amount for an element *)
(* that is online, 0 for one that is not.                                  *)
(***************************************************************************)
WriteCost(els, kind, col, y, amount) ==
    [i \in 1..Len(els) |->
        IF els[i].kind = kind
        THEN [els[i] EXCEPT !.df = SetCell(@, col, y,
                                           IF y >= els[i].year_online THEN amount ELSE 0)]
        ELSE els[i]]

\* the share of a cost an element bears: floor(10 * t * perTeu * unit / count),
\* 0 when nothing of the kind is online (and no element reads it)
CostShare(t, perTeu, unit, count) ==
    IF count = 0 THEN 0 ELSE MulDiv(t, Times(perTeu, Times(unit, Frac(10, 1)))) \div count

\* the land use of the elements online, in square metres
LandUseKinds == {"Quay_wall", "Laden_Stack", "Empty_Stack", "OOG_Stack", "Gate"}
RECURSIVE LandUseOnline(_, _, _)
LandUseOnline(els, kinds, y) ==
    IF els = <<>> THEN 0
    ELSE (IF Head(els).kind \in kinds /\ y >= Head(els).year_online
          THEN Head(els).land_use ELSE 0) + LandUseOnline(Tail(els), kinds, y)

(***************************************************************************)
(* calculate_energy_cost                                                   *)
(***************************************************************************)
calculate_energy_cost(els, y, volume, equipment, laden) ==
    LET t == throughput_online(els, y, volume)
        cranes == Len(OnlineElements(els, "Cyclic_Unloader", y))
        e1 == WriteCost(els, "Cyclic_Unloader", "energy", y,
                        CostShare(t, BoxesPerTeu,
                                  Times(Frac(sts_crane_data.consumption, 1), energy_price),
                                  cranes))
        units == Len(OnlineElements(els, "Stack_Equipment", y))
        e2 == IF equipment = "rmg"
              THEN WriteCost(e1, "Stack_Equipment", "energy", y,
                             CostShare(t, StackMovesPerTeu(laden),
                                       Times(Frac(EquipmentData(equipment).power_consumption, 1),
                                             energy_price),
                                       units))
              ELSE e1
        stacks == Len(OnlineElements(els, "Laden_Stack", y))
        e3 == WriteCost(e2, "Laden_Stack", "energy", y,
                        CostShare(volume, ReeferSlotsPerTeu,
                                  Times(Frac(reefers_present * 24 * 365, 100), energy_price),
                                  stacks))
        lighting == LandUseOnline(els, LandUseKinds \cup {"General_Services"}, y)
                    * general_services_data.lighting_consumption
        general == general_services_data.general_consumption * operational_hours
    IN  WriteCost(e3, "General_Services", "energy", y,
                  MulDiv(lighting + general, Times(energy_price, Frac(10, 1))))

(***************************************************************************)
(* calculate_general_labour_cost                                           *)
(***************************************************************************)
\* fixed_labour + shift_labour for the throughput of a year, in tenths
GeneralLabour(volume) ==
    LET g == general_services_data
        crew_required == CeilDiv(Demand(volume), g.crew_required)
        fixed_labour == crew_required * g.fixed_staff * white_collar_salary
        white_collar == crew_required * labour_data.daily_shifts * g.operations
                        * white_collar_salary
        blue_collar == crew_required * labour_data.daily_shifts * g.engineering_security
                       * blue_collar_salary
    IN  10 * (fixed_labour + white_collar + blue_collar)

\* the labour cost written into the series of the cranes, over the labour
\* booked for them
general_labour_cost_on_cranes(els, y, volume) ==
    WriteCost(els, "Cyclic_Unloader", "labour", y, GeneralLabour(volume))

\* nothing is written in a year with no crane online
calculate_general_labour_cost(els, y, volume) ==
    IF Len(OnlineElements(els, "Cyclic_Unloader", y)) # 0
    THEN WriteCost(els, "General_Services", "labour", y, GeneralLabour(volume))
    ELSE els

(***************************************************************************)
(* calculate_fuel_cost                                                     *)
(***************************************************************************)
calculate_fuel_cost(els, y, volume, equipment, laden) ==
    LET t == throughput_online(els, y, volume)
        handlers == Len(OnlineElements(els, "Empty_Handler", y))
        e1 == WriteCost(els, "Empty_Handler", "fuel", y,
                        CostShare(t, EmptyMovesPerTeu,
                                  Frac(empty_handler_data.fuel_consumption * fuel_price, 10),
                                  handlers))
        units == Len(OnlineElements(els, "Stack_Equipment", y))
        e2 == IF equipment \in {"rtg", "rs", "sc"}
              THEN WriteCost(e1, "Stack_Equipment", "fuel", y,
                             CostShare(t, StackMovesPerTeu(laden),
                                       Frac(EquipmentData(equipment).fuel_consumption * fuel_price, 1),
                                       units))
              ELSE e1
        transport == Len(OnlineElements(els, "Horizontal_Transport", y))
    IN  WriteCost(e2, "Horizontal_Transport", "fuel", y,
                  CostShare(t, TractorMovesPerTeu,
                            Frac(tractor_trailer_data.fuel_consumption * fuel_price, 1),
                            transport))

(***************************************************************************)
(* waiting_time and calculate_demurrage_cost.  The polynomial of the       *)
(* waiting-time factor is evaluated in fixed point: the occupancy in       *)
(* billionths, the coefficients in ten-thousandths, the factor in          *)
(* ten-millionths.                                                         *)
(***************************************************************************)
\* the coefficients of the polynomial of a berth count, highest power first
FactorCoefficients(berths) ==
    CASE berths = 1 -> <<797260, -1264700, 706600, -146510, 9218>>
      [] berths = 2 -> <<298250, -464890, 256560, -53517, 3376>>
      [] berths = 3 -> <<193620, -303880, 167910, -35457, 2253>>
      [] berths = 4 -> <<173340, -277450, 154320, -32725, 2080>>
      [] berths = 5 -> <<111490, -173390, 94010, -19687, 1247>>
      [] berths = 6 -> <<105120, -163900, 88292, -18368, 1158>>
      [] berths = 7 -> <<84371, -132260, 71446, -14902, 941>>

\* the polynomial at x billionths, in ten-millionths
RECURSIVE Horner(_, _, _)
Horner(coefficients, x, acc) ==
    IF coefficients = <<>> THEN acc
    ELSE Horner(Tail(coefficients), x,
                FloorMulDiv(acc, x, 1000000000) + 1000 * Head(coefficients))

\* berth_occupancy_online in billionths, for at least one crane online: the
\* mooring time of the Panamax calls alone is divided by the number of
\* berths.  The three terms are added over the denominator rate * nr_berths *
\* operational_hours before the one division.
berth_occupancy_online(els, y, calls) ==
    LET rate == Len(OnlineElements(els, "Cyclic_Unloader", y)) * effective_capacity
        nr_berths == Len(find_elements(els, "Berth"))
        size(type) == CallsOf(calls, type) * VesselData(type).call_size
        moored == calls.handysize * handysize_data.mooring_time
                  + calls.handymax * handymax_data.mooring_time
        time == (size("Handysize") + size("Handymax") + size("Panamax")) * nr_berths
                + moored * rate * nr_berths
                + calls.panamax * panamax_data.mooring_time * rate
        hours == rate * nr_berths * operational_hours
    IN  IF time >= hours THEN 1000000000
        ELSE FloorMulDiv(time, 1000000000, hours)

\* the factor of waiting_time: inf when the berth count has no polynomial,
\* else in ten-millionths; with no crane online the polynomial of inf is nan
\* and max(0, nan) is 0
waiting_time(els, y, calls) ==
    IF WaitingFactorIsInf(els)
    THEN [k |-> "inf", v |-> 0]
    ELSE IF Len(OnlineElements(els, "Cyclic_Unloader", y)) = 0
    THEN [k |-> "num", v |-> 0]
    ELSE [k |-> "num",
          v |-> Max(0, Horner(FactorCoefficients(Len(find_elements(els, "Berth"))),
                              berth_occupancy_online(els, y, calls), 0))]

\* demurrage of one vessel class, in tenths, for a factor in ten-millionths:
\* penalty time * calls * rate with the waiting time factor * call_size /
\* service_rate in ten-thousandths of an hour and its remainder, the service
\* rate being the capacity online divided by the number of quay walls
DemurrageOf(type, factor, cranes, quay_walls, calls) ==
    LET v == VesselData(type)
        rate == 1000 * cranes * effective_capacity
        waiting == MulDivRem(factor, v.call_size * quay_walls, rate)
        penalty == waiting.q - 10000 * v.all_turn_time
        cost == CallsOf(calls, type) * v.demurrage_rate
        whole == MulDivRem(Max(0, penalty), cost, 1000)
        part == MulDivRem(waiting.r, cost, rate)
    IN  IF penalty < 0 THEN 0 ELSE whole.q + (whole.r + part.q) \div 1000

\* what calculate_demurrage_cost appends: nan when the factor is inf and a
\* class has no calls (inf * 0), inf when every class has calls
calculate_demurrage_cost(els, y, scen) ==
    LET calls == calculate_vessel_calls(scen, y)
        cranes == Len(OnlineElements(els, "Cyclic_Unloader", y))
        quay_walls == Len(find_elements(els, "Quay_wall"))
        factor == waiting_time(els, y, calls)
    IN  IF cranes = 0
        THEN [k |-> "num", v |-> 0]
        ELSE IF factor.k = "inf"
        THEN [k |-> IF \E type \in VesselTypes : CallsOf(calls, type) = 0
                    THEN "nan" ELSE "inf", v |-> 0]
        ELSE [k |-> "num",
              v |-> DemurrageOf("Handymax", factor.v, cranes, quay_walls, calls)
                    + DemurrageOf("Handysize", factor.v, cranes, quay_walls, calls)
                    + DemurrageOf("Panamax", factor.v, cranes, quay_walls, calls)]

(***************************************************************************)
(* calculate_revenue                                                       *)
(***************************************************************************)
\* service_rate * operational_hours / total_vol divides two Python numbers
\* when no crane is online, and raises ZeroDivisionError for a volume of 0
RevenueRaises(els, y, scen) ==
    /\ Len(OnlineElements(els, "Cyclic_Unloader", y)) = 0
    /\ CallVolume(scen, y) = 0

safety_factor(els) ==
    IF /\ Len(find_elements(els, "Quay_wall")) < 1
       /\ Len(find_elements(els, "Cyclic_Unloader")) > 1
       /\ Len(find_elements(els, "Horizontal_Transport")) < 1
    THEN 0 ELSE 1

\* service_rate * operational_hours: the cranes online at the crane occupancy
\* online, which is the time the calls take at the cranes capped at 1
ServedVolume(els, y, calls) ==
    LET cranes == Len(OnlineElements(els, "Cyclic_Unloader", y))
        size(type) == CallsOf(calls, type) * VesselData(type).call_size
    IN  Min(size("Handysize") + size("Handymax") + size("Panamax"),
            cranes * effective_capacity * operational_hours)

\* what calculate_revenue appends, in tenths
calculate_revenue(els, y, scen) ==
    LET fee == 10 * container_data.handling_fee * safety_factor(els)
    IN  Min(CallVolume(scen, y) * fee * safety_factor(els),
            ServedVolume(els, y, calculate_vessel_calls(scen, y)) * fee)

(***************************************************************************)
(* add_cashflow_elements: the ledger                                       *)
(***************************************************************************)
\* the loop over the elements left at the first element without a df
RECURSIVE ColumnSumUntilNoDf(_, _, _)
ColumnSumUntilNoDf(els, c, y) ==
    IF els = <<>> \/ ~Head(els).hasdf THEN 0
    ELSE (IF c \in Head(els).df.cols THEN Head(els).df.val[c][y] ELSE 0)
         + ColumnSumUntilNoDf(Tail(els), c, y)

\* cash_flows[column] += element.df[column], element after element, for the
\* elements that have a df with the column: the cell of one year
RECURSIVE ColumnSum(_, _, _)
ColumnSum(els, c, y) ==
    IF els = <<>> THEN 0
    ELSE (IF Head(els).hasdf /\ c \in Head(els).df.cols THEN Head(els).df.val[c][y] ELSE 0)
         + ColumnSum(Tail(els), c, y)

\* NaN plus a number is NaN: the cells that an element holds as NaN
NanCells(els) ==
    UNION {IF els[i].hasdf THEN {cell \in els[i].df.nan : cell[1] \in els[i].df.cols} ELSE {}
           : i \in 1..Len(els)}

\* cash_flows.fillna(0) returns a copy: the ledger keeps its NaN cells
add_cashflow_elements(els, demurrage_series, revenue_series) ==
    [val |-> [c \in Columns |-> [y \in Years |-> ColumnSum(els, c, y)]],
     nan |-> NanCells(els),
     demurrage |-> demurrage_series, revenues |-> revenue_series]

NoLedger ==
    [val |-> [c \in Columns |-> [y \in Years |-> 0]], nan |-> {},
     demurrage |-> <<>>, revenues |-> <<>>]

(***************************************************************************)
(* WACC_nominal, WACC_real, NPV                                            *)
(***************************************************************************)
\* ((E / (E + D)) * Re + (D / (E + D)) * Rd) * (1 - Tc) with Gearing = 60,
\* Re = .10, Rd = .30, Tc = .28
WACC_nominal == Times(Frac(40 * 10 + 60 * 30, 100 * 100), Frac(100 - 28, 100))

\* 1 + WACC_real = (WACC_nominal + 1) / (inflation + 1) with inflation = 0.02
WACC_real_plus_one ==
    Times(Frac(WACC_nominal.n + WACC_nominal.d, WACC_nominal.d), Frac(100, 102))

\* amount / (1 + WACC_real) ** k
RECURSIVE Discounted(_, _)
Discounted(amount, k) ==
    IF k = 0 THEN amount
    ELSE Discounted(MulDiv(amount, Frac(WACC_real_plus_one.d, WACC_real_plus_one.n)), k - 1)

RECURSIVE SumOver(_, _)
SumOver(S, f) ==
    IF S = {} THEN 0
    ELSE LET x == CHOOSE z \in S : TRUE IN f[x] + SumOver(S \ {x}, f)

\* np.sum(- capex - opex + revenue): capex and opex discounted, the revenues
\* as calculate_revenue appended them; nan when a cell of the ledger is
\* NaN or the demurrage is not a number
NPV(ledger) ==
    IF \/ ledger.nan # {}
       \/ \E i \in 1..Len(ledger.demurrage) : ledger.demurrage[i].k = "nan"
    THEN [k |-> "nan", v |-> 0]
    ELSE IF \E i \in 1..Len(ledger.demurrage) : ledger.demurrage[i].k = "inf"
    THEN [k |-> "-inf", v |-> 0]
    ELSE [k |-> "num",
          v |-> SumOver(Years,
                   [y \in Years |->
                       ledger.revenues[y - startyear + 1]
                       - Discounted(SumOver(Columns, [c \in Columns |-> ledger.val[c][y]])
                                    + ledger.demurrage[y - startyear + 1].v,
                                    y - startyear)])]

(***************************************************************************)
(* The state machine.  A System is a position in simulate(): pc names the  *)
(* call that runs next and year the year it runs for.  Python runs one     *)
(* simulate() at a time, so a System takes a step only while no other      *)
(* System is inside its simulate().                                        *)
(***************************************************************************)
LastYear == startyear + lifecycle - 1

Els(s) == lists[elements[s]]

Running(s) ==
    /\ pc[s] \notin {"unbuilt", "done", "raised"}
    /\ ~(pc[s] = "berth_invest" /\ year[s] = startyear)

Turn(s) == \A o \in Systems \ {s} : ~Running(o)

\* gate_invest and empty_handler_invest called in the other order
next_routine_swapped(p) ==
    CASE p = "berth_invest" -> "horizontal_transport_invest"
      [] p = "horizontal_transport_invest" -> "laden_stack_invest"
      [] p = "laden_stack_invest" -> "empty_stack_invest"
      [] p = "empty_stack_invest" -> "oog_stack_invest"
      [] p = "oog_stack_invest" -> "stack_equipment_invest"
      [] p = "stack_equipment_invest" -> "empty_handler_invest"
      [] p = "empty_handler_invest" -> "gate_invest"
      [] p = "gate_invest" -> "general_services_invest"
      [] p = "general_services_invest" -> "berth_invest"

\* the call simulate() makes after a routine of the year loop has returned
next_routine(p) ==
    CASE p = "berth_invest" -> "horizontal_transport_invest"
      [] p = "horizontal_transport_invest" -> "laden_stack_invest"
      [] p = "laden_stack_invest" -> "empty_stack_invest"
      [] p = "empty_stack_invest" -> "oog_stack_invest"
      [] p = "oog_stack_invest" -> "stack_equipment_invest"
      [] p = "stack_equipment_invest" -> "gate_invest"
      [] p = "gate_invest" -> "empty_handler_invest"
      [] p = "empty_handler_invest" -> "general_services_invest"
      [] p = "general_services_invest" -> "berth_invest"

\* the loop that follows a loop over the years
next_loop(p) ==
    CASE p = "general_services_invest" -> "calculate_energy_cost"
      [] p = "calculate_energy_cost" -> "calculate_general_labour_cost"
      [] p = "calculate_general_labour_cost" -> "calculate_fuel_cost"
      [] p = "calculate_fuel_cost" -> "calculate_demurrage_cost"
      [] p = "calculate_demurrage_cost" -> "calculate_revenue"
      [] p = "calculate_revenue" -> "add_cashflow_elements"

\* the elements a step counted into its totals of what is online in a year:
\* their positions in the list of len elements the step left
Counted(y, kinds, positions, len) ==
    [year |-> y, kinds |-> kinds, positions |-> positions, len |-> len]

NoCount == Counted(startyear, {}, {}, 0)

KindPositions(els, kinds) == {i \in 1..Len(els) : els[i].kind \in kinds}
OnlineKindPositions(els, kinds, y) ==
    {i \in 1..Len(els) : els[i].kind \in kinds /\ y >= els[i].year_online}

CountOnline(els, kinds, y) ==
    Counted(y, kinds, OnlineKindPositions(els, kinds, y), Len(els))

\* a loop that counts what is online before its first pass and, after every
\* append, all the elements of the kind it appends
CountLoop(before, after, kinds, appended, y) ==
    IF Len(after) = Len(before)
    THEN CountOnline(after, kinds \cup {appended}, y)
    ELSE Counted(y, kinds \cup {appended},
                 OnlineKindPositions(after, kinds, y) \cup KindPositions(after, {appended}),
                 Len(after))

\* empty_handler_invest counts len(find_elements(...)) of the cranes and of
\* the empty handlers
CountAll(els, kinds, y) == Counted(y, kinds, KindPositions(els, kinds), Len(els))

Returned(els) == [i \in 1..Len(els) |-> [kind |-> els[i].kind, year_online |-> els[i].year_online]]

\* a routine of the year loop has returned with the list els
Routine(s, els, cnt) ==
    LET last == pc[s] = "general_services_invest"
    IN  /\ lists' = [lists EXCEPT ![elements[s]] = els]
        /\ counted' = [counted EXCEPT ![s] = cnt]
        /\ pc' = [pc EXCEPT ![s] = IF last /\ year[s] = LastYear
                                   THEN next_loop(pc[s]) ELSE next_routine(pc[s])]
        /\ year' = [year EXCEPT ![s] = IF ~last THEN @
                                       ELSE IF @ = LastYear THEN startyear ELSE @ + 1]
        /\ UNCHANGED <<elements, scenario, stack_equipment, laden_stack, demurrage,
                       revenues, cash_flows, npv, returned>>

\* a call of a loop over the years has returned
Looped(s) ==
    /\ pc' = [pc EXCEPT ![s] = IF year[s] = LastYear THEN next_loop(@) ELSE @]
    /\ year' = [year EXCEPT ![s] = IF @ = LastYear THEN startyear ELSE @ + 1]

\* an exception leaves simulate(), the list being els by then
Raised(s, els) ==
    /\ pc' = [pc EXCEPT ![s] = "raised"]
    /\ lists' = [lists EXCEPT ![elements[s]] = els]
    /\ UNCHANGED <<elements, scenario, stack_equipment, laden_stack, year,
                   demurrage, revenues, cash_flows, npv, returned, counted>>

(***************************************************************************)
(* The year loop of simulate(): one action for each routine                *)
(***************************************************************************)
Volume(s) == scenario[s][year[s]]

BerthInvest(s) ==
    /\ Turn(s)
    /\ pc[s] = "berth_invest"
    /\ LET els == berth_invest(Els(s), year[s], calculate_vessel_calls(scenario[s], year[s]))
       IN  Routine(s, els, CountOnline(els, {"Cyclic_Unloader"}, year[s]))

HorizontalTransportInvest(s) ==
    /\ Turn(s)
    /\ pc[s] = "horizontal_transport_invest"
    /\ LET els == horizontal_transport_invest(Els(s), year[s], stack_equipment[s])
       IN  Routine(s, els, CountLoop(Els(s), els, {"Cyclic_Unloader"},
                                     "Horizontal_Transport", year[s]))

LadenStackInvest(s) ==
    /\ Turn(s)
    /\ pc[s] = "laden_stack_invest"
    /\ IF ThroughputRaises(scenario[s], year[s])
       THEN Raised(s, Els(s))
       ELSE LET els == laden_stack_invest(Els(s), year[s], Volume(s), laden_stack[s])
            IN  Routine(s, els, CountOnline(els, {"Laden_Stack"}, year[s]))

EmptyStackInvest(s) ==
    /\ Turn(s)
    /\ pc[s] = "empty_stack_invest"
    /\ IF ThroughputRaises(scenario[s], year[s])
       THEN Raised(s, Els(s))
       ELSE LET els == empty_stack_invest(Els(s), year[s], Volume(s))
            IN  Routine(s, els, CountOnline(els, {"Empty_Stack"}, year[s]))

OogStackInvest(s) ==
    /\ Turn(s)
    /\ pc[s] = "oog_stack_invest"
    /\ IF ThroughputRaises(scenario[s], year[s])
       THEN Raised(s, Els(s))
       ELSE LET els == oog_stack_invest(Els(s), year[s], Volume(s))
            IN  Routine(s, els, CountOnline(els, {"OOG_Stack"}, year[s]))

StackEquipmentInvest(s) ==
    /\ Turn(s)
    /\ pc[s] = "stack_equipment_invest"
    /\ LET els == stack_equipment_invest(Els(s), year[s], stack_equipment[s])
       IN  Routine(s, els, CountLoop(Els(s), els, {"Cyclic_Unloader", "Laden_Stack"},
                                     "Stack_Equipment", year[s]))

\* calculate_gate_minutes reads the throughput once a gate exists
GateInvest(s) ==
    /\ Turn(s)
    /\ pc[s] = "gate_invest"
    /\ IF ThroughputRaises(scenario[s], year[s])
       THEN IF find_elements(Els(s), "Gate") = <<>>
            THEN Raised(s, Append(Els(s), NewGate(Els(s), year[s])))
            ELSE Raised(s, Els(s))
       ELSE LET els == gate_invest(Els(s), year[s], Volume(s))
            IN  Routine(s, els, CountOnline(els, {"Gate", "Cyclic_Unloader"}, year[s]))

EmptyHandlerInvest(s) ==
    /\ Turn(s)
    /\ pc[s] = "empty_handler_invest"
    /\ LET els == empty_handler_invest(Els(s), year[s])
       IN  Routine(s, els, CountAll(els, {"Cyclic_Unloader", "Empty_Handler"}, year[s]))

GeneralServicesInvest(s) ==
    /\ Turn(s)
    /\ pc[s] = "general_services_invest"
    /\ IF ThroughputRaises(scenario[s], year[s])
       THEN Raised(s, Els(s))
       ELSE LET els == general_services_invest(Els(s), year[s])
            IN  Routine(s, els,
                        CountOnline(els, LandUseKinds \cup {"Cyclic_Unloader", "General_Services"},
                                    year[s]))

(***************************************************************************)
(* The loops after the year loop, the ledger and the NPV                   *)
(***************************************************************************)
\* a call of a cost loop has returned with the list els
Costed(s, els, cnt) ==
    /\ lists' = [lists EXCEPT ![elements[s]] = els]
    /\ counted' = [counted EXCEPT ![s] = cnt]
    /\ Looped(s)
    /\ UNCHANGED <<elements, scenario, stack_equipment, laden_stack, demurrage,
                   revenues, cash_flows, npv, returned>>

CalculateEnergyCost(s) ==
    /\ Turn(s)
    /\ pc[s] = "calculate_energy_cost"
    /\ IF ThroughputRaises(scenario[s], year[s])
       THEN Raised(s, Els(s))
       ELSE Costed(s, calculate_energy_cost(Els(s), year[s], Volume(s), stack_equipment[s],
                                            laden_stack[s]),
                   CountOnline(Els(s),
                               LandUseKinds \cup {"Cyclic_Unloader", "General_Services"}
                               \cup (IF stack_equipment[s] = "rmg"
                                     THEN {"Stack_Equipment"} ELSE {}),
                               year[s]))

CalculateGeneralLabourCost(s) ==
    /\ Turn(s)
    /\ pc[s] = "calculate_general_labour_cost"
    /\ IF ThroughputRaises(scenario[s], year[s])
       THEN Raised(s, Els(s))
       ELSE Costed(s, calculate_general_labour_cost(Els(s), year[s], Volume(s)),
                   CountOnline(Els(s), {"Cyclic_Unloader"}, year[s]))

CalculateFuelCost(s) ==
    /\ Turn(s)
    /\ pc[s] = "calculate_fuel_cost"
    /\ IF ThroughputRaises(scenario[s], year[s])
       THEN Raised(s, Els(s))
       ELSE Costed(s, calculate_fuel_cost(Els(s), year[s], Volume(s), stack_equipment[s],
                                          laden_stack[s]),
                   CountOnline(Els(s),
                               {"Cyclic_Unloader", "Empty_Handler", "Horizontal_Transport"}
                               \cup (IF stack_equipment[s] = "rmg"
                                     THEN {} ELSE {"Stack_Equipment"}),
                               year[s]))

\* self.demurrage = [] before the first call of the loop
CalculateDemurrageCost(s) ==
    /\ Turn(s)
    /\ pc[s] = "calculate_demurrage_cost"
    /\ demurrage' = [demurrage EXCEPT ![s] =
                        Append(IF year[s] = startyear THEN <<>> ELSE @,
                               calculate_demurrage_cost(Els(s), year[s], scenario[s]))]
    /\ counted' = [counted EXCEPT ![s] = CountOnline(Els(s), {"Cyclic_Unloader"}, year[s])]
    /\ Looped(s)
    /\ UNCHANGED <<lists, elements, scenario, stack_equipment, laden_stack, revenues,
                   cash_flows, npv, returned>>

\* self.revenues = [] before the first call of the loop
CalculateRevenue(s) ==
    /\ Turn(s)
    /\ pc[s] = "calculate_revenue"
    /\ IF RevenueRaises(Els(s), year[s], scenario[s])
       THEN /\ pc' = [pc EXCEPT ![s] = "raised"]
            /\ revenues' = [revenues EXCEPT ![s] = IF year[s] = startyear THEN <<>> ELSE @]
            /\ UNCHANGED <<year, counted>>
       ELSE /\ revenues' = [revenues EXCEPT ![s] =
                               Append(IF year[s] = startyear THEN <<>> ELSE @,
                                      calculate_revenue(Els(s), year[s], scenario[s]))]
            /\ counted' = [counted EXCEPT ![s] =
                              CountOnline(Els(s), {"Cyclic_Unloader"}, year[s])]
            /\ Looped(s)
    /\ UNCHANGED <<lists, elements, scenario, stack_equipment, laden_stack, demurrage,
                   cash_flows, npv, returned>>

AddCashflowElements(s) ==
    /\ Turn(s)
    /\ pc[s] = "add_cashflow_elements"
    /\ cash_flows' = [cash_flows EXCEPT ![s] =
                         add_cashflow_elements(Els(s), demurrage[s], revenues[s])]
    /\ pc' = [pc EXCEPT ![s] = "NPV"]
    /\ counted' = [counted EXCEPT ![s] = NoCount]
    /\ UNCHANGED <<lists, elements, scenario, stack_equipment, laden_stack, year,
                   demurrage, revenues, npv, returned>>

\* self.NPV() assembles the ledger again and simulate() returns its sum
ReturnNPV(s) ==
    /\ Turn(s)
    /\ pc[s] = "NPV"
    /\ npv' = [npv EXCEPT ![s] = NPV(add_cashflow_elements(Els(s), demurrage[s], revenues[s]))]
    /\ returned' = [returned EXCEPT ![s] = Returned(Els(s))]
    /\ pc' = [pc EXCEPT ![s] = "done"]
    /\ UNCHANGED <<lists, elements, scenario, stack_equipment, laden_stack, year,
                   demurrage, revenues, cash_flows, counted>>

(***************************************************************************)
(* One System built on elements = demand + vessels runs simulate() once.   *)
(***************************************************************************)
\* the volumes a year of the scenario may hold: no row, nothing, and two
\* demands of which the larger needs a second crane
Volumes == {Absent, 0, 100000, 300000}
Scenarios == [Years -> Volumes]

NoNPV == [k |-> "none", v |-> 0]

Init ==
    /\ lists = [l \in Systems |-> InitialElements]
    /\ elements = [s \in Systems |-> s]
    /\ \E scen \in Scenarios : scenario = [s \in Systems |-> scen]
    /\ \E variant \in Variants :
          /\ stack_equipment = [s \in Systems |-> variant]
          /\ laden_stack = [s \in Systems |-> variant]
    /\ pc = [s \in Systems |-> IF s = 1 THEN "berth_invest" ELSE "unbuilt"]
    /\ year = [s \in Systems |-> startyear]
    /\ demurrage = [s \in Systems |-> <<>>]
    /\ revenues = [s \in Systems |-> <<>>]
    /\ cash_flows = [s \in Systems |-> NoLedger]
    /\ npv = [s \in Systems |-> NoNPV]
    /\ returned = [s \in Systems |-> <<>>]
    /\ counted = [s \in Systems |-> NoCount]

Next ==
    \E s \in Systems :
        \/ BerthInvest(s)
        \/ HorizontalTransportInvest(s)
        \/ LadenStackInvest(s)
        \/ EmptyStackInvest(s)
        \/ OogStackInvest(s)
        \/ StackEquipmentInvest(s)
        \/ GateInvest(s)
        \/ EmptyHandlerInvest(s)
        \/ GeneralServicesInvest(s)
        \/ CalculateEnergyCost(s)
        \/ CalculateGeneralLabourCost(s)
        \/ CalculateFuelCost(s)
        \/ CalculateDemurrageCost(s)
        \/ CalculateRevenue(s)
        \/ AddCashflowElements(s)
        \/ ReturnNPV(s)

Spec == Init /\ [][Next]_vars

(***************************************************************************)
(* berth_invest alone, called once for every year on a registry of the     *)
(* commodity and the vessels, for demands that take many berths.  The      *)
(* routine reads the commodity, the vessels, the berths, the quay walls    *)
(* and the cranes of the registry and nothing else.                        *)
(***************************************************************************)
\* nothing, one crane, three berths, eight berths, eight full berths, nine
BerthVolumes == {0, 300000, 1600000, 5400000, 6000000, 7000000}

BerthInvestYearly(s) ==
    /\ pc[s] = "berth_invest_yearly"
    /\ LET els == berth_invest(Els(s), year[s], calculate_vessel_calls(scenario[s], year[s]))
       IN  /\ lists' = [lists EXCEPT ![elements[s]] = els]
           /\ counted' = [counted EXCEPT ![s] = CountOnline(els, {"Cyclic_Unloader"}, year[s])]
    /\ pc' = [pc EXCEPT ![s] = IF year[s] = LastYear THEN "done" ELSE @]
    /\ year' = [year EXCEPT ![s] = IF @ = LastYear THEN @ ELSE @ + 1]
    /\ returned' = [returned EXCEPT ![s] = IF year[s] = LastYear
                                           THEN Returned(lists'[elements[s]]) ELSE @]
    /\ UNCHANGED <<elements, scenario, stack_equipment, laden_stack, demurrage,
                   revenues, cash_flows, npv>>

InitBerth ==
    /\ lists = [l \in Systems |-> InitialElements]
    /\ elements = [s \in Systems |-> s]
    /\ \E scen \in [Years -> BerthVolumes] : scenario = [s \in Systems |-> scen]
    /\ stack_equipment = [s \in Systems |-> "rtg"]
    /\ laden_stack = [s \in Systems |-> "rtg"]
    /\ pc = [s \in Systems |-> IF s = 1 THEN "berth_invest_yearly" ELSE "unbuilt"]
    /\ year = [s \in Systems |-> startyear]
    /\ demurrage = [s \in Systems |-> <<>>]
    /\ revenues = [s \in Systems |-> <<>>]
    /\ cash_flows = [s \in Systems |-> NoLedger]
    /\ npv = [s \in Systems |-> NoNPV]
    /\ returned = [s \in Systems |-> <<>>]
    /\ counted = [s \in Systems |-> NoCount]

NextBerth == \E s \in Systems : BerthInvestYearly(s)

SpecBerth == InitBerth /\ [][NextBerth]_vars

(***************************************************************************)
(* Two Systems in one process, each running simulate() once, in either     *)
(* order.  System.__init__ keeps the list it is given (self.elements =     *)
(* elements): two Systems built on the same list share the registry.       *)
(***************************************************************************)
\* demands of one crane and of two cranes, and a small one
PairVolumes == {20000, 100000, 300000}

\* the scenario a is nowhere above the scenario b
Below(a, b) == \A y \in Years : a[y] <= b[y]

InitTwo ==
    /\ lists = [l \in Systems |-> InitialElements]
    /\ \E shared \in BOOLEAN, a, b \in [Years -> PairVolumes] :
          /\ Below(a, b)
          /\ shared => a = b
          /\ elements = [s \in Systems |-> IF shared THEN 1 ELSE s]
          /\ scenario = [s \in Systems |-> IF s = 1 THEN a ELSE b]
    /\ stack_equipment = [s \in Systems |-> "rtg"]
    /\ laden_stack = [s \in Systems |-> "rtg"]
    /\ pc = [s \in Systems |-> "berth_invest"]
    /\ year = [s \in Systems |-> startyear]
    /\ demurrage = [s \in Systems |-> <<>>]
    /\ revenues = [s \in Systems |-> <<>>]
    /\ cash_flows = [s \in Systems |-> NoLedger]
    /\ npv = [s \in Systems |-> NoNPV]
    /\ returned = [s \in Systems |-> <<>>]
    /\ counted = [s \in Systems |-> NoCount]

SpecTwo == InitTwo /\ [][Next]_vars

(***************************************************************************)
(* NPV() alone, called on a System whose registry holds the berth, the     *)
(* quay wall and the cranes of a first berth_invest, with their series,    *)
(* for demurrage and revenues lists drawn from small sets.                 *)
(***************************************************************************)
\* amounts in tenths of a currency unit
NpvRevenues == {0, 10000000}
NpvDemurrages == {0, 50000}
NpvVolumes == {100000, 300000}

InitNPV ==
    /\ \E v \in NpvVolumes :
          /\ scenario = [s \in Systems |-> [y \in Years |-> v]]
          /\ lists = [l \in Systems |->
                        IF l = 1
                        THEN berth_invest(InitialElements, startyear,
                                          calculate_vessel_calls([y \in Years |-> v],
                                                                 startyear))
                        ELSE InitialElements]
    /\ elements = [s \in Systems |-> s]
    /\ stack_equipment = [s \in Systems |-> "rtg"]
    /\ laden_stack = [s \in Systems |-> "rtg"]
    /\ pc = [s \in Systems |-> IF s = 1 THEN "NPV" ELSE "unbuilt"]
    /\ year = [s \in Systems |-> startyear]
    /\ \E d \in [1..lifecycle -> NpvDemurrages] :
          demurrage = [s \in Systems |->
                          IF s = 1 THEN [i \in 1..lifecycle |-> [k |-> "num", v |-> d[i]]]
                          ELSE <<>>]
    /\ \E r \in [1..lifecycle -> NpvRevenues] :
          revenues = [s \in Systems |-> IF s = 1 THEN r ELSE <<>>]
    /\ cash_flows = [s \in Systems |-> NoLedger]
    /\ npv = [s \in Systems |-> NoNPV]
    /\ returned = [s \in Systems |-> <<>>]
    /\ counted = [s \in Systems |-> NoCount]

NextNPV == \E s \in Systems : ReturnNPV(s)

SpecNPV == InitNPV /\ [][NextNPV]_vars

(***************************************************************************)
(* Properties of simulate()                                                *)
(***************************************************************************)
CountKind(els, kind) == Cardinality({i \in 1..Len(els) : els[i].kind = kind})

\* every element of old is in new at its position, the same object of the
\* same kind
Kept(old, new) ==
    /\ Len(old) <= Len(new)
    /\ \A i \in 1..Len(old) : new[i].kind = old[i].kind /\ new[i].oid = old[i].oid

\* C1: every step of simulate() leaves every element of the registry at its
\* position and of its kind; the registry changes only by appending at its end.
C1_RegistryOnlyGrows ==
    [][\A l \in DOMAIN lists : Kept(lists[l], lists'[l])]_vars

\* simulate() has returned with a registry grown by every routine
C1_Witness ==
    /\ pc[1] = "done"
    /\ \A kind \in {"Berth", "Quay_wall", "Cyclic_Unloader", "Horizontal_Transport",
                    "Laden_Stack", "Empty_Stack", "OOG_Stack", "Stack_Equipment", "Gate",
                    "Empty_Handler", "General_Services"} : CountKind(Els(1), kind) >= 1

InvestedKinds ==
    {"Berth", "Quay_wall", "Horizontal_Transport", "Laden_Stack", "Empty_Stack",
     "OOG_Stack", "Stack_Equipment", "Gate", "Empty_Handler", "General_Services"}

\* C2: every element an investment routine creates in decision year Y has
\* year_online = Y + delivery_time, and one year more when Y is the first
\* simulated year.
C2_YearOnlineRule ==
    \A s \in Systems : \A i \in 1..Len(Els(s)) :
        LET e == Els(s)[i]
        IN  e.kind \in InvestedKinds =>
               e.year_online = IF e.year = startyear
                               THEN e.year + e.delivery_time + 1
                               ELSE e.year + e.delivery_time

\* C3: an element is counted in a total of what is online in year Y if and
\* only if Y >= its year_online.
C3_OnlineCount ==
    \A s \in Systems :
        counted[s].len = Len(Els(s)) =>
            counted[s].positions =
                {i \in 1..Len(Els(s)) : /\ Els(s)[i].kind \in counted[s].kinds
                                        /\ counted[s].year >= Els(s)[i].year_online}

RoutineOrder ==
    <<"berth_invest", "horizontal_transport_invest", "laden_stack_invest",
      "empty_stack_invest", "oog_stack_invest", "stack_equipment_invest", "gate_invest",
      "empty_handler_invest", "general_services_invest">>

AfterRoutines ==
    {"calculate_energy_cost", "calculate_general_labour_cost", "calculate_fuel_cost",
     "calculate_demurrage_cost", "calculate_revenue", "add_cashflow_elements", "NPV", "done"}

\* a step of simulate() from the call p of year y to the call q of year z
InOrder(p, y, q, z) ==
    \/ q = "raised"
    \/ \E i \in 1..8 : p = RoutineOrder[i] /\ q = RoutineOrder[i + 1] /\ z = y
    \/ p = RoutineOrder[9] /\ y < startyear + lifecycle - 1 /\ q = RoutineOrder[1] /\ z = y + 1
    \/ p = RoutineOrder[9] /\ y = startyear + lifecycle - 1 /\ q = "calculate_energy_cost"
    \/ p \in AfterRoutines /\ q \in AfterRoutines

\* C4: simulate() walks the years in ascending order and in each year runs
\* the nine routines once, in the fixed order; a year starts only after the
\* general services routine of the year before has returned, and the cost
\* loops, the ledger and the NPV start only after the routines of the last year.
C4_FixedOrder ==
    [][\A s \in Systems :
          (pc'[s] # pc[s] \/ year'[s] # year[s]) =>
              InOrder(pc[s], year[s], pc'[s], year'[s])]_vars

\* simulate() has walked all the years and returned
C4_Witness == pc[1] = "done" /\ npv[1].k # "none" /\ Len(revenues[1]) = lifecycle

\* the sum of a column of a year over the series of the elements at the
\* positions 1..n of the registry
RECURSIVE SeriesSum(_, _, _, _)
SeriesSum(els, n, c, y) ==
    IF n = 0 THEN 0
    ELSE SeriesSum(els, n - 1, c, y) + (IF els[n].hasdf THEN els[n].df.val[c][y] ELSE 0)

\* C7: for every year and cost column the ledger of add_cashflow_elements
\* holds the sum of the column over the series of all registry elements (not
\* a number where a series holds none), and its demurrage and revenue columns
\* are the demurrage and revenue series.
C7_LedgerIsSum ==
    \A s \in Systems :
        pc[s] \in {"NPV", "done"} =>
            /\ \A c \in Columns, y \in Years :
                  /\ cash_flows[s].val[c][y] = SeriesSum(Els(s), Len(Els(s)), c, y)
                  /\ <<c, y>> \in cash_flows[s].nan
                        <=> \E i \in 1..Len(Els(s)) :
                               Els(s)[i].hasdf /\ <<c, y>> \in Els(s)[i].df.nan
            /\ cash_flows[s].demurrage = demurrage[s]
            /\ cash_flows[s].revenues = revenues[s]

\* a ledger assembled from a registry with costs in every column
C7_Witness ==
    /\ pc[1] = "done"
    /\ \A c \in Columns : \E y \in Years : cash_flows[1].val[c][y] > 0
    /\ Len(cash_flows[1].revenues) = lifecycle

\* C10: with no crane in the registry the occupancy is the infinite sentinel
\* and berth_invest leaves at least one berth, one quay and one crane; with no
\* gate the gate service rate is the infinite sentinel and gate_invest leaves
\* at least one gate; neither raises, for every demand, zero included.
C10_FirstInvestment ==
    [][\A s \in Systems :
          /\ (pc[s] = "berth_invest" /\ pc'[s] # pc[s]
              /\ find_elements(Els(s), "Cyclic_Unloader") = <<>>) =>
                 /\ IsInf(berth_occupancy_planned(Els(s),
                                                  calculate_vessel_calls(scenario[s], year[s])))
                 /\ pc'[s] # "raised"
                 /\ \A kind \in {"Berth", "Quay_wall", "Cyclic_Unloader"} :
                       CountKind(lists'[elements[s]], kind) >= 1
          /\ (pc[s] = "gate_invest" /\ pc'[s] # pc[s]
              /\ find_elements(Els(s), "Gate") = <<>>) =>
                 /\ GateTrigger(Els(s), year[s], Volume(s))
                 /\ pc'[s] # "raised"
                 /\ CountKind(lists'[elements[s]], "Gate") >= 1]_vars

\* the first year of a scenario with no demand, after gate_invest
C10_Witness ==
    /\ scenario[1][startyear] = 0
    /\ year[1] = startyear
    /\ pc[1] = "empty_handler_invest"
    /\ CountKind(Els(1), "Gate") >= 1
    /\ CountKind(Els(1), "Cyclic_Unloader") >= 1

(***************************************************************************)
(* Properties of berth_invest                                              *)
(***************************************************************************)
\* the elements of a kind among the first n of the registry
CountBefore(els, n, kind) == Cardinality({i \in 1..n : els[i].kind = kind})

\* the largest LOA of the vessel classes, in metres
LargestLOA ==
    CHOOSE l \in {handysize_data.LOA, handymax_data.LOA, panamax_data.LOA} :
        \A m \in {handysize_data.LOA, handymax_data.LOA, panamax_data.LOA} : l >= m

\* C8: a quay is LOA + 30 long when no quay exists, 1.1 x berths x (LOA + 15)
\* - (LOA + 2 x 15) when one quay exists and 1.1 x berths x (LOA + 15) - 1.1 x
\* (berths - 1) x (LOA + 15) when two or more exist, berths being the berths of
\* the registry at that moment; lengths in decimetres.
C8_QuayLength ==
    \A s \in Systems : \A i \in 1..Len(Els(s)) :
        Els(s)[i].kind = "Quay_wall" =>
            LET quays == CountBefore(Els(s), i - 1, "Quay_wall")
                berths == CountBefore(Els(s), i - 1, "Berth")
            IN  Els(s)[i].length =
                   CASE quays = 0 -> 10 * LargestLOA + 300
                     [] quays = 1 -> 11 * berths * (LargestLOA + 15) - (10 * LargestLOA + 300)
                     [] OTHER -> 11 * berths * (LargestLOA + 15)
                                 - 11 * (berths - 1) * (LargestLOA + 15)

\* a registry with a first, a second and later quays
C8_Witness ==
    /\ pc[1] = "done"
    /\ CountKind(Els(1), "Quay_wall") >= 4
    /\ CountKind(Els(1), "Berth") = CountKind(Els(1), "Quay_wall")

\* C9: whenever the registry holds 8 or more berths, waiting_time returns the
\* infinite sentinel as the waiting-time factor, and a call of berth_invest
\* on such a registry invests (the registry grows), whatever the occupancy.
C9_InvestsWhateverOccupancy ==
    [][\A s \in Systems :
          (pc[s] = "berth_invest_yearly" /\ CountKind(Els(s), "Berth") >= 8) =>
              /\ WaitingFactorIsInf(Els(s))
              /\ Len(lists'[elements[s]]) > Len(Els(s))]_vars

(***************************************************************************)
(* Properties of two runs                                                  *)
(***************************************************************************)
BothReturned == pc[1] = "done" /\ pc[2] = "done"

SameInputs ==
    /\ scenario[1] = scenario[2]
    /\ stack_equipment[1] = stack_equipment[2]
    /\ laden_stack[1] = laden_stack[2]

\* C5: two Systems built with the same scenario and configuration, each
\* running simulate() once, in either order, end with the same registry (as
\* many elements, the same kinds in the same order, the same year_online) and
\* return the same NPV.
C5_SameRuns ==
    (BothReturned /\ SameInputs) => (returned[1] = returned[2] /\ npv[1] = npv[2])

SubsystemKinds ==
    {"Berth", "Quay_wall", "Cyclic_Unloader", "Horizontal_Transport", "Laden_Stack",
     "Empty_Stack", "OOG_Stack", "Stack_Equipment", "Gate", "Empty_Handler",
     "General_Services"}

CountReturned(r, kind) == Cardinality({i \in 1..Len(r) : r[i].kind = kind})

\* C6: of two scenarios with the same configuration, the second nowhere
\* below the first and above it in some year, the second ends simulate() with
\* no fewer elements of any subsystem kind than the first.
C6_MoreDemandNoFewerElements ==
    (/\ BothReturned
     /\ elements[1] # elements[2]
     /\ stack_equipment[1] = stack_equipment[2] /\ laden_stack[1] = laden_stack[2]
     /\ \A y \in Years : scenario[1][y] <= scenario[2][y]
     /\ \E y \in Years : scenario[1][y] < scenario[2][y]) =>
        \A kind \in SubsystemKinds :
            CountReturned(returned[1], kind) <= CountReturned(returned[2], kind)

(***************************************************************************)
(* Properties of a scenario that lacks a year                              *)
(***************************************************************************)
\* C11: when the scenario has no volume entry for a simulated year,
\* simulate() still completes without raising an error, the year counting as
\* zero volume.
C11_AbsentYearCompletes ==
    \A s \in Systems :
        (\E y \in Years : ~HasVolume(scenario[s], y)) => pc[s] # "raised"

(***************************************************************************)
(* Properties of the cash-flow series of an element                        *)
(***************************************************************************)
\* the element at a place of a list has a series and a step keeps the
\* element there
Attached(l, i) == i <= Len(lists[l]) /\ lists[l][i].hasdf /\ i <= Len(lists'[l])

\* the columns add_cashflow_data_to_element books for an element
BookedColumns(e) ==
    {"capex"} \cup (IF e.maintenance # 0 THEN {"maintenance"} ELSE {})
              \cup (IF e.insurance # 0 THEN {"insurance"} ELSE {})
              \cup (IF e.labour # 0 THEN {"labour"} ELSE {})

SameCells(d, e, cols) ==
    /\ \A c \in cols : d.val[c] = e.val[c]
    /\ \A c \in cols : \A y \in Years : (<<c, y>> \in d.nan) <=> (<<c, y>> \in e.nan)

\* C12 as stated: once a series is attached to an element, no later step
\* of simulate() changes any value of it or replaces it.
C12_SeriesImmutable ==
    [][\A l \in DOMAIN lists : \A i \in 1..Len(lists[l]) :
          Attached(l, i) => lists'[l][i].df = lists[l][i].df]_vars

\* C12, amended: no later step of simulate() changes a value that was booked
\* at investment time (the columns capex, maintenance, insurance and labour
\* that add_cashflow_data_to_element wrote), and no step removes a column;
\* the cost calculations write cells of other columns of the series.
C12_BookedValuesKept ==
    [][\A l \in DOMAIN lists : \A i \in 1..Len(lists[l]) :
          Attached(l, i) =>
              /\ lists'[l][i].hasdf
              /\ lists[l][i].df.cols \subseteq lists'[l][i].df.cols
              /\ SameCells(lists[l][i].df, lists'[l][i].df,
                           BookedColumns(lists[l][i]))]_vars

\* the cost loops have written into the series of a crane that has booked
\* capex, maintenance, insurance and labour
C12_Witness ==
    /\ pc[1] = "done"
    /\ \E i \in 1..Len(Els(1)) :
          /\ Els(1)[i].kind = "Cyclic_Unloader"
          /\ BookedColumns(Els(1)[i]) = {"capex", "maintenance", "insurance", "labour"}
          /\ "energy" \in Els(1)[i].df.cols
          /\ \E y \in Years : Els(1)[i].df.val["energy"][y] > 0
          /\ \E y \in Years : Els(1)[i].df.val["labour"][y] > 0

(***************************************************************************)
(* Properties of the values in the series and the ledger                   *)
(***************************************************************************)
\* C13: no infinite or not-a-number value is in the series of an element or
\* in a column of the assembled ledger, the demurrage and revenue columns
\* included, when simulate() has returned.
C13_NoNonFiniteValue ==
    \A s \in Systems :
        pc[s] = "done" =>
            /\ NanCells(Els(s)) = {}
            /\ cash_flows[s].nan = {}
            /\ \A i \in 1..Len(cash_flows[s].demurrage) :
                  cash_flows[s].demurrage[i].k = "num"

(***************************************************************************)
(* Properties of NPV()                                                     *)
(***************************************************************************)
\* the sum over the years of (revenue - capex - insurance - maintenance
\* - energy - fuel - labour - demurrage), every term divided by
\* (1 + WACC_real) ** (year - startyear)
DiscountedAll(ledger) ==
    SumOver(Years,
            [y \in Years |->
                Discounted(ledger.revenues[y - startyear + 1], y - startyear)
                - Discounted(SumOver(Columns, [c \in Columns |-> ledger.val[c][y]])
                             + ledger.demurrage[y - startyear + 1].v,
                             y - startyear)])

\* C14: NPV() returns the sum over the simulated years of (revenue - capex
\* - insurance - maintenance - energy - fuel - labour - demurrage), each of
\* the eight terms, revenue included, divided by
\* (1 + real WACC) ** (year - startyear).
C14_NPVDiscountsEveryTerm ==
    \A s \in Systems :
        (pc[s] = "done" /\ npv[s].k = "num") =>
            npv[s].v = DiscountedAll(add_cashflow_elements(Els(s), demurrage[s], revenues[s]))

(***************************************************************************)
(* Properties of the quays, the berths and the cranes                      *)
(***************************************************************************)
\* the largest draft of the vessel classes, in decimetres
LargestDraft ==
    CHOOSE d \in {handysize_data.draft, handymax_data.draft, panamax_data.draft} :
        \A m \in {handysize_data.draft, handymax_data.draft, panamax_data.draft} : d >= m

\* C15: every quay is sized for the largest vessel class: the length passed
\* to quay_invest is at least the largest LOA plus 2 x 15 m and the depth is
\* the largest draft plus the sinkage, wave-motion and safety allowances, for
\* the first, the second and every later quay.
C15_QuayFitsLargestVessel ==
    \A s \in Systems : \A i \in 1..Len(Els(s)) :
        Els(s)[i].kind = "Quay_wall" =>
            /\ Els(s)[i].length >= 10 * (LargestLOA + 2 * 15)
            /\ Els(s)[i].depth = LargestDraft + quay_depth_allowance

\* a registry with a first quay, a second quay and later quays, decided in
\* more than one year
C15_Witness ==
    \E i, j, k \in 1..Len(Els(1)) :
        /\ i < j /\ j < k
        /\ Els(1)[i].kind = "Quay_wall" /\ CountBefore(Els(1), i - 1, "Quay_wall") = 0
        /\ Els(1)[j].kind = "Quay_wall" /\ CountBefore(Els(1), j - 1, "Quay_wall") = 1
        /\ Els(1)[k].kind = "Quay_wall" /\ Els(1)[k].year > Els(1)[i].year

\* C16: every element an investment routine has appended to the registry,
\* of every kind and for every decision year, the first included, has its
\* cash-flow series.
C16_AppendedWithSeries ==
    \A s \in Systems : \A i \in 1..Len(Els(s)) :
        Els(s)[i].kind \in SubsystemKinds => Els(s)[i].hasdf

\* what the registry held when its element i was appended allowed the
\* element: a berth with no crane slot free, a quay with more berths than
\* quays, a crane with a slot free
AddedInTurn(els) ==
    \A i \in 1..Len(els) :
        LET berths == CountBefore(els, i - 1, "Berth")
            quays == CountBefore(els, i - 1, "Quay_wall")
            cranes == CountBefore(els, i - 1, "Cyclic_Unloader")
        IN  /\ els[i].kind = "Berth" => berths * berth_data.max_cranes <= cranes
            /\ els[i].kind = "Quay_wall" => berths > quays
            /\ els[i].kind = "Cyclic_Unloader" => berths * berth_data.max_cranes > cranes

\* C17: when berth_invest(Y) returns, the planned berth occupancy of year Y,
\* computed from all cranes and berths of the registry, is at most
\* allowable_berth_occupancy; a berth was added only with no crane slot free,
\* a quay only with berths outnumbering quays, a crane only with a slot free.
C17_BerthInvestReturns ==
    [][\A s \in Systems :
          pc[s] = "berth_invest_yearly" =>
              /\ ~Greater(berth_occupancy_planned(
                              lists'[elements[s]],
                              calculate_vessel_calls(scenario[s], year[s])),
                          allowable_berth_occupancy)
              /\ AddedInTurn(lists'[elements[s]])]_vars

\* berth_invest has returned from a year that took a second berth, with
\* cranes at work
C17_Witness ==
    /\ pc[1] = "done"
    /\ CountKind(Els(1), "Berth") >= 2
    /\ CountKind(Els(1), "Cyclic_Unloader") >= 5
    /\ \E i \in 1..Len(Els(1)) : Els(1)[i].kind = "Berth" /\ Els(1)[i].year = LastYear
    /\ berth_occupancy_planned(Els(1), calculate_vessel_calls(scenario[1], LastYear)).n > 0

\* the year_online of the quays among the first n elements of the registry
QuaysOnlineBefore(els, n) ==
    {els[j].year_online : j \in {k \in 1..n : els[k].kind = "Quay_wall"}}

\* C18: a crane decided in year Y has year_online = max(Y + delivery_time,
\* the largest year_online of the quays existing at its creation): no crane
\* is online before a quay that existed when the crane was created.
C18_CraneNotBeforeQuay ==
    \A s \in Systems : \A i \in 1..Len(Els(s)) :
        Els(s)[i].kind = "Cyclic_Unloader" =>
            LET own == Els(s)[i].year + Els(s)[i].delivery_time
                quays == QuaysOnlineBefore(Els(s), i - 1)
            IN  /\ \A q \in quays : Els(s)[i].year_online >= q
                /\ Els(s)[i].year_online >= own
                /\ Els(s)[i].year_online \in quays \cup {own}

\* a crane that waits for its quay, and a crane decided later that comes
\* online at its own delivery, after every quay
C18_Witness ==
    \E i, j \in 1..Len(Els(1)) :
        /\ Els(1)[i].kind = "Cyclic_Unloader"
        /\ Els(1)[i].year_online > Els(1)[i].year + Els(1)[i].delivery_time
        /\ Els(1)[j].kind = "Cyclic_Unloader"
        /\ Els(1)[j].year_online = Els(1)[j].year + Els(1)[j].delivery_time
        /\ \A q \in QuaysOnlineBefore(Els(1), j - 1) : Els(1)[j].year_online > q

(***************************************************************************)
(* Properties of the investment loops: each loop has a bound on the units  *)
(* it adds, read from the registry and the demand it starts with.          *)
(***************************************************************************)
\* the units of a size that bring have up to need
UnitsNeeded(need, have, unit) ==
    IF need <= have THEN 0 ELSE CeilDiv(need - have, unit)

\* a number of cranes at which the planned berth occupancy is within the
\* allowable occupancy, with at most max_cranes cranes on a berth
CranesSufficient(calls) ==
    LET size(type) == CallsOf(calls, type) * VesselData(type).call_size
        moored(type) == CallsOf(calls, type) * VesselData(type).mooring_time
        S == size("Handysize") + size("Handymax") + size("Panamax")
        M == moored("Handysize") + moored("Handymax") + moored("Panamax")
        a == allowable_berth_occupancy
    IN  Max(1, CeilDiv((S + berth_data.max_cranes * M * effective_capacity) * a.d,
                       effective_capacity * operational_hours * a.n))

\* a pass of the loop of berth_invest adds one crane and at most a berth and
\* a quay with it
BerthLoopBound(els, calls) ==
    3 * Max(0, CranesSufficient(calls) - Len(find_elements(els, "Cyclic_Unloader")))

StackLoopBound(els, kind, y, perTeu, volume, capacity) ==
    UnitsNeeded(volume * perTeu.n, StackCapacityCompared(els, kind, y) * perTeu.d,
                capacity * perTeu.d)

EquipmentLoopBound(els, y, variant) ==
    IF variant = "rmg"
    THEN UnitsNeeded(2 * Len(OnlineElements(els, "Laden_Stack", y)),
                     Len(OnlineElements(els, "Stack_Equipment", y)), 1)
    ELSE UnitsNeeded(EquipmentData(variant).required
                         * Len(OnlineElements(els, "Cyclic_Unloader", y)),
                     Len(OnlineElements(els, "Stack_Equipment", y)), 1)

\* the design gate minutes of a throughput, rounded up to a whole minute
DesignGateMinutes(throughput) ==
    LET m == MulDivRem(throughput, GateMinutesPerTeu.n, GateMinutesPerTeu.d)
    IN  m.q + (IF m.r > 0 THEN 1 ELSE 0)

GateLoopBound(els, y, volume) ==
    LET gates == find_elements(els, "Gate")
        minutes == DesignGateMinutes(throughput_online(els, y, volume))
    IN  Max(IF gates = <<>> THEN 1 ELSE 0,
            UnitsNeeded(minutes, SumSeq(Map(gates, LAMBDA e : e.capacity)),
                        gate_data.capacity))

LoopRoutines ==
    {"berth_invest", "horizontal_transport_invest", "laden_stack_invest",
     "empty_stack_invest", "oog_stack_invest", "stack_equipment_invest", "gate_invest",
     "empty_handler_invest"}

\* the bound of the loop of the routine a System calls next
LoopBound(s) ==
    LET els == Els(s)
        y == year[s]
    IN  CASE pc[s] = "berth_invest" ->
                BerthLoopBound(els, calculate_vessel_calls(scenario[s], y))
          [] pc[s] = "horizontal_transport_invest" ->
                IF stack_equipment[s] = "sc" THEN 0
                ELSE UnitsNeeded(tractor_trailer_data.required
                                     * Len(OnlineElements(els, "Cyclic_Unloader", y)),
                                 Len(OnlineElements(els, "Horizontal_Transport", y)), 1)
          [] pc[s] = "laden_stack_invest" ->
                StackLoopBound(els, "Laden_Stack", y, LadenRequiredPerTeu, Volume(s),
                               StackData(laden_stack[s]).capacity)
          [] pc[s] = "empty_stack_invest" ->
                StackLoopBound(els, "Empty_Stack", y, EmptyRequiredPerTeu, Volume(s),
                               empty_stack_data.capacity)
          [] pc[s] = "oog_stack_invest" ->
                StackLoopBound(els, "OOG_Stack", y, OogRequiredPerTeu, Volume(s),
                               oog_stack_data.capacity)
          [] pc[s] = "stack_equipment_invest" ->
                EquipmentLoopBound(els, y, stack_equipment[s])
          [] pc[s] = "gate_invest" -> GateLoopBound(els, y, Volume(s))
          [] pc[s] = "empty_handler_invest" ->
                UnitsNeeded(empty_handler_data.required
                                * Len(find_elements(els, "Cyclic_Unloader")),
                            Len(find_elements(els, "Empty_Handler")), 1)

\* C19: every investment loop (berth/quay/crane, horizontal transport, laden,
\* empty and out-of-gauge stack, stack equipment, gate, empty handler) ends
\* after a finite number of added elements: a call adds no more elements than
\* the distance between the metric its loop tests and the threshold, counted
\* in units, which every added unit reduces.
C19_LoopsEnd ==
    [][\A s \in Systems :
          (pc[s] \in LoopRoutines /\ pc'[s] # "raised") =>
              Len(lists'[elements[s]]) - Len(Els(s)) <= LoopBound(s)]_vars

\* simulate() has returned from a scenario in which every loop added
\* elements, several of them more than one
C19_Witness ==
    /\ pc[1] = "done"
    /\ CountKind(Els(1), "Cyclic_Unloader") >= 2
    /\ CountKind(Els(1), "Horizontal_Transport") >= 2
    /\ CountKind(Els(1), "Laden_Stack") >= 2
    /\ CountKind(Els(1), "Empty_Stack") >= 1
    /\ CountKind(Els(1), "OOG_Stack") >= 1
    /\ CountKind(Els(1), "Stack_Equipment") >= 2
    /\ CountKind(Els(1), "Gate") >= 1
    /\ CountKind(Els(1), "Empty_Handler") >= 2

(***************************************************************************)
(* Properties of add_cashflow_data_to_element                              *)
(***************************************************************************)
\* k tenths of an amount, rounded down
TenthsOf(k, amount) == k * (amount \div 10) + (k * (amount % 10)) \div 10

\* the capex an element is to book in a year
CapexDue(e, y) ==
    IF e.delivery_time > 1
    THEN IF y = e.year_online - 2 THEN TenthsOf(6, e.capex)
         ELSE IF y = e.year_online - 1 THEN TenthsOf(4, e.capex)
         ELSE 0
    ELSE IF y = e.year_online - 1 THEN e.capex ELSE 0

\* C20: the series of an element with delivery_time > 1 books 60% of its
\* capex in year_online - 2 and 40% in year_online - 1, the series of an
\* element with delivery_time <= 1 books all of it in year_online - 1, and the
\* capex entry of every other simulated year is zero.
C20_CapexTiming ==
    \A s \in Systems : \A i \in 1..Len(Els(s)) :
        Els(s)[i].hasdf =>
            /\ "capex" \in Els(s)[i].df.cols
            /\ \A y \in Years :
                  /\ <<"capex", y>> \notin Els(s)[i].df.nan
                  /\ Els(s)[i].df.val["capex"][y] = CapexDue(Els(s)[i], y)

\* a registry with an element that books 60% and 40% within the simulated
\* years, one that books 60% in the last year and its 40% after it, and one
\* that books all of its capex in one year
C20_Witness ==
    \E i, j, k \in 1..Len(Els(1)) :
        /\ Els(1)[i].hasdf /\ Els(1)[i].delivery_time > 1 /\ Els(1)[i].capex > 0
        /\ Els(1)[i].year_online - 2 \in Years /\ Els(1)[i].year_online - 1 \in Years
        /\ Els(1)[j].hasdf /\ Els(1)[j].delivery_time > 1 /\ Els(1)[j].capex > 0
        /\ Els(1)[j].year_online - 2 = LastYear
        /\ Els(1)[k].hasdf /\ Els(1)[k].delivery_time = 1 /\ Els(1)[k].capex > 0
        /\ Els(1)[k].year_online - 1 \in Years

(***************************************************************************)
(* Properties of the registry at the end of a year of the loop.  The       *)
(* investment routines do not read the lifecycle: the registry that n      *)
(* passes of the year loop leave is the registry of a simulate() with a    *)
(* lifecycle of n years, whose cost loops, ledger and NPV append nothing.  *)
(***************************************************************************)
\* the passes of the year loop a System has completed
PassesDone(s) ==
    IF pc[s] \in AfterRoutines THEN lifecycle
    ELSE IF pc[s] = "berth_invest" THEN year[s] - startyear
    ELSE 0

\* the year loop of a System has just completed a pass
EndOfPass(s) ==
    /\ PassesDone(s) >= 1
    /\ pc[s] \in AfterRoutines \cup {"berth_invest"}

\* C21: the registry simulate() leaves holds exactly one general-services
\* element, decided in startyear + 1, for every lifecycle from one year on.
C21_OneGeneralServices ==
    \A s \in Systems :
        EndOfPass(s) =>
            /\ CountKind(Els(s), "General_Services") = 1
            /\ \A i \in 1..Len(Els(s)) :
                  Els(s)[i].kind = "General_Services" => Els(s)[i].year = startyear + 1

(***************************************************************************)
(* Properties of the stack, gate and equipment routines                    *)
(***************************************************************************)
\* the first n elements of a registry
Prefix(els, n) == SubSeq(els, 1, n)

\* C22: laden_stack_invest(Y) appends a laden stack of the configured
\* variant while the required laden and reefer capacity of year Y exceeds the
\* planned plus the online laden stack capacity and nothing otherwise; when it
\* returns the required capacity is at most the planned plus the online
\* capacity.
C22_LadenStackLoop ==
    [][\A s \in Systems :
          (pc[s] = "laden_stack_invest" /\ pc'[s] # "raised") =>
              LET old == Els(s)
                  new == lists'[elements[s]]
                  exceeds(els) ==
                      RequiredExceeds(LadenRequiredPerTeu, Volume(s),
                                      StackCapacityCompared(els, "Laden_Stack", year[s]))
              IN  /\ Prefix(new, Len(old)) = old
                  /\ \A n \in (Len(old) + 1)..Len(new) :
                        /\ new[n].kind = "Laden_Stack"
                        /\ new[n].year = year[s]
                        /\ new[n].capacity = StackData(laden_stack[s]).capacity
                        /\ exceeds(Prefix(new, n - 1))
                  /\ ~exceeds(new)]_vars

\* laden_stack_invest has returned from the last year with a new stack next
\* to a stack that is online
C22_Witness ==
    /\ pc[1] = "empty_stack_invest"
    /\ year[1] = LastYear
    /\ \E i, j \in 1..Len(Els(1)) :
          /\ Els(1)[i].kind = "Laden_Stack" /\ Els(1)[i].year_online <= LastYear
          /\ Els(1)[j].kind = "Laden_Stack" /\ Els(1)[j].year = LastYear

\* total_design_gate_minutes of a year exceed the summed capacity of the
\* gates of a registry
GateMinutesExceed(els, y, volume) ==
    DesignGateMinutes(throughput_online(els, y, volume))
        > SumSeq(Map(find_elements(els, "Gate"), LAMBDA e : e.capacity))

\* C23 as stated: gate_invest(Y) appends a gate only while the required
\* design gate-minutes of year Y exceed the installed gate capacity, and when
\* it returns they are at most the summed capacity of all gates.
C23_GateOnlyOnDemand ==
    [][\A s \in Systems :
          (pc[s] = "gate_invest" /\ pc'[s] # "raised") =>
              LET new == lists'[elements[s]]
              IN  /\ \A n \in (Len(Els(s)) + 1)..Len(new) :
                        /\ new[n].kind = "Gate"
                        /\ GateMinutesExceed(Prefix(new, n - 1), year[s], Volume(s))
                  /\ ~GateMinutesExceed(new, year[s], Volume(s))]_vars

\* C23, amended: gate_invest(Y) appends a gate while the registry holds no
\* gate, whatever the demand, or the required design gate-minutes of year Y
\* exceed the summed capacity of the gates of the registry; when it returns
\* the registry holds a gate and the required design gate-minutes are at most
\* the summed capacity of all gates.
C23_GateLoop ==
    [][\A s \in Systems :
          (pc[s] = "gate_invest" /\ pc'[s] # "raised") =>
              LET new == lists'[elements[s]]
              IN  /\ Prefix(new, Len(Els(s))) = Els(s)
                  /\ \A n \in (Len(Els(s)) + 1)..Len(new) :
                        /\ new[n].kind = "Gate"
                        /\ \/ find_elements(Prefix(new, n - 1), "Gate") = <<>>
                           \/ GateMinutesExceed(Prefix(new, n - 1), year[s], Volume(s))
                  /\ find_elements(new, "Gate") # <<>>
                  /\ ~GateMinutesExceed(new, year[s], Volume(s))]_vars

\* gate_invest has returned from the first year with the one gate of a
\* registry that had none, and from a later year with a gate added on demand
C23_Witness ==
    /\ pc[1] = "empty_handler_invest"
    /\ year[1] > startyear
    /\ \E i, j \in 1..Len(Els(1)) :
          /\ Els(1)[i].kind = "Gate" /\ Els(1)[i].year = startyear
          /\ Els(1)[j].kind = "Gate" /\ Els(1)[j].year = year[1]
    /\ CountKind(Els(1), "Gate") >= 2

\* the units a trigger of stack_equipment_invest reads: those online in the
\* year at the start of the call, all units of the registry after an append
UnitsRead(old, new, n, y) ==
    IF n = Len(old) + 1
    THEN Len(OnlineElements(old, "Stack_Equipment", y))
    ELSE CountKind(Prefix(new, n - 1), "Stack_Equipment")

\* C24: for rmg, stack_equipment_invest(Y) adds a unit only while there are
\* fewer units than laden stacks online in year Y, one unit for a stack; for
\* rtg, sc and rs it adds a unit only while the units, divided by the units
\* required for a crane, are fewer than the cranes online.
C24_EquipmentTrigger ==
    [][\A s \in Systems :
          pc[s] = "stack_equipment_invest" =>
              LET old == Els(s)
                  new == lists'[elements[s]]
                  y == year[s]
                  variant == stack_equipment[s]
              IN  \A n \in (Len(old) + 1)..Len(new) :
                     /\ new[n].kind = "Stack_Equipment"
                     /\ IF variant = "rmg"
                        THEN UnitsRead(old, new, n, y)
                                 < Len(OnlineElements(old, "Laden_Stack", y))
                        ELSE UnitsRead(old, new, n, y) \div EquipmentData(variant).required
                                 < Len(OnlineElements(old, "Cyclic_Unloader", y))]_vars


\* the revenue of year y as the sum of its two sides states it, in tenths
RevenueOfYear(els, y, scen) ==
    LET fee == 10 * container_data.handling_fee
        demand == CallVolume(scen, y) * fee
        capacity == ServedVolume(els, y, calculate_vessel_calls(scen, y)) * fee
        forced == /\ CountKind(els, "Quay_wall") = 0
                  /\ CountKind(els, "Cyclic_Unloader") > 1
                  /\ CountKind(els, "Horizontal_Transport") = 0
    IN  IF forced THEN 0 ELSE Min(demand, capacity)

\* C25: calculate_revenue(Y) appends exactly one value for its year, the
\* smaller of the demand-side and the capacity-side revenue, and zero exactly
\* when the registry has no quay, more than one crane and no horizontal
\* transport.
C25_OneRevenuePerYear ==
    [][\A s \in Systems :
          pc[s] = "calculate_revenue" =>
              /\ Len(revenues'[s]) = year[s] - startyear + 1
              /\ revenues'[s][Len(revenues'[s])]
                     = RevenueOfYear(Els(s), year[s], scenario[s])]_vars


\* C26: from a registry without berth, quay or crane, every return of
\* berth_invest leaves as many quays as berths, and every crane of the
\* registry was created with a quay before it and with fewer cranes before
\* it than the berths before it allow.
C26_QuaysMatchBerths ==
    \A s \in Systems :
        pc[s] \in {"berth_invest_yearly", "done"} =>
            /\ CountKind(Els(s), "Quay_wall") = CountKind(Els(s), "Berth")
            /\ \A i \in 1..Len(Els(s)) :
                  Els(s)[i].kind = "Cyclic_Unloader" =>
                      /\ QuaysOnlineBefore(Els(s), i - 1) # {}
                      /\ CountKind(Prefix(Els(s), i - 1), "Cyclic_Unloader")
                             < CountKind(Prefix(Els(s), i - 1), "Berth") * berth_data.max_cranes

\* berth_invest has returned three times and left several berths, each with a
\* quay, and every crane slot of the berths taken
C26_Witness ==
    /\ pc[1] = "done"
    /\ CountKind(Els(1), "Berth") >= 3
    /\ CountKind(Els(1), "Quay_wall") = CountKind(Els(1), "Berth")
    /\ CountKind(Els(1), "Cyclic_Unloader")
           = CountKind(Els(1), "Berth") * berth_data.max_cranes


\* the capex column of a series summed over the simulated years
CapexSum(e) == SumOver(Years, e.df.val["capex"])

\* C27: the capex column of the series of an element, summed over the
\* simulated years, is the capex of the element: no part of it is dropped
\* for a booking year outside the simulated years.
C27_CapexBookedInFull ==
    \A s \in Systems : \A i \in 1..Len(Els(s)) :
        Els(s)[i].hasdf => CapexSum(Els(s)[i]) = Els(s)[i].capex


\* C28: the series of an element decided in year Y has no capex entry other
\* than zero in a year before Y, whatever its delivery_time.
C28_NoCapexBeforeDecision ==
    \A s \in Systems : \A i \in 1..Len(Els(s)) :
        Els(s)[i].hasdf =>
            \A y \in Years :
                Els(s)[i].df.val["capex"][y] # 0 => y >= Els(s)[i].year


\* the stack kind and the required capacity for a TEU of the three stack
\* routines
StackRoutines ==
    [laden_stack_invest |-> [kind |-> "Laden_Stack", perTeu |-> LadenRequiredPerTeu],
     empty_stack_invest |-> [kind |-> "Empty_Stack", perTeu |-> EmptyRequiredPerTeu],
     oog_stack_invest |-> [kind |-> "OOG_Stack", perTeu |-> OogRequiredPerTeu]]

\* C29: when laden_stack_invest(Y), empty_stack_invest(Y) or
\* oog_stack_invest(Y) returns, the capacities of the stacks of its category
\* in the registry, each stack counted once, sum to at least the required
\* capacity of the category for year Y.
C29_StacksCoverRequired ==
    [][\A s \in Systems :
          (pc[s] \in DOMAIN StackRoutines /\ pc'[s] # "raised") =>
              LET new == lists'[elements[s]]
                  routine == StackRoutines[pc[s]]
              IN  ~RequiredExceeds(routine.perTeu, Volume(s),
                                   CapacityPlanned(new, routine.kind))]_vars


\* C30: every entry of the registry is an element object of its own: no
\* object sits at two positions, also when a routine adds several units in
\* one year.
C30_DistinctElements ==
    \A s \in Systems : \A i, j \in 1..Len(Els(s)) :
        i # j => Els(s)[i].oid # Els(s)[j].oid

====
